---- MODULE Spec2Model ----
(***************************************************************************)
(* Model of the three-channel container migration protocol of              *)
(* lxd/migrate.go: the migrationFields methods (send, recv, disconnect,    *)
(* sendControl, controlChannel), the source operation (Connect, Do) and    *)
(* the sink operation (Do and its worker goroutines).                      *)
(*                                                                         *)
(* Every goroutine is a thread with a program counter pc[t] and a stack of *)
(* return labels stack[t]; a call pushes the label to continue at and a    *)
(* return pops it.  The specifications share the state:                    *)
(*   SpecFields  goroutines calling the migrationFields writers            *)
(*   SpecConn    concurrent Connect requests on one source operation       *)
(*   Spec        one migration, source Do against sink Do                  *)
(*   SpecHeader  the opening header, for every snapshot listing            *)
(*   SpecLive    one live migration in which two operations may fail       *)
(*   SpecEcho    a live source against a peer that echoes any header       *)
(*   SpecLegacy  the sink against a peer that sends any snapshot lists     *)
(*   SpecCreate  the constructors of the two operations                    *)
(*   SpecIdmap   the id map of the header, for any id map of the source    *)
(*   SpecSnapshot the descriptor snapshotToProtobuf builds of a container  *)
(***************************************************************************)
EXTENDS Integers, Sequences, FiniteSets, TLC

(* ------------------------------ bounds --------------------------------- *)
NumWriters == 2
MaxCalls == 3
MaxConnects == 3
MaxFaults == 1
MaxLiveFaults == 2
MaxSnaps == 2
MaxNameLen == 3
MaxRandoms == 2
MaxIdmapLen == 2
MaxDevices == 2

(* ------------------------------ values --------------------------------- *)
Nil == "nil"
Free == <<"free", 0>>
Sides == {"source", "sink"}
FSTypes == {"RSYNC", "BTRFS", "ZFS"}
CRIUTypes == {"CRIU_RSYNC", "PHAUL", "NONE"}
Absent == "absent"

Peer(s) == IF s = "source" THEN "sink" ELSE "source"

SrcDo == <<"srcDo", 0>>
Dump == <<"dump", 0>>
AsOp == <<"asOp", 0>>
SinkDo == <<"sinkDo", 0>>
Restore == <<"restore", 0>>
FsXfer == <<"fsTransfer", 0>>
Reader == <<"reader", 0>>
Writers == {<<"writer", i>> : i \in 1..NumWriters}
Handlers == {<<"connect", i>> : i \in 1..MaxConnects}
SourceThreads == {SrcDo, Dump, AsOp} \cup Handlers
SinkThreads == {SinkDo, Restore, FsXfer, Reader} \cup Writers
Threads == SourceThreads \cup SinkThreads

SideOf(t) == IF t \in SourceThreads THEN "source" ELSE "sink"

(* Messages of migrate.proto, and the websocket close frame. *)
Frame(type, fs, criu, ok, hasMsg) ==
  [type |-> type, fs |-> fs, criu |-> criu, success |-> ok, hasMessage |-> hasMsg,
   idmap |-> <<>>, snapshotNames |-> <<>>, snapshots |-> <<>>]

Hdr(fs, criu) == Frame("header", fs, criu, FALSE, FALSE)

(* A Go integer is its two's complement bits, held as 16-bit limbs with    *)
(* the most significant limb first: an int64 has four limbs, an int32 two. *)
(* Int32Width is the width of the protobuf int32 the ids are converted to. *)
Int32Width == 32
LimbBits == Int32Width \div 2
I64(a, b, c, d) == <<a, b, c, d>>

Negative(x) == x[1] >= 2^(LimbBits - 1)

(* int32(x) of an int64: the low 32 bits are kept *)
Int32(x) == <<x[3], x[4]>>

(* int64(y) of an int32: the sign bit is extended *)
Int64(y) == IF Negative(y) THEN <<2^LimbBits - 1, 2^LimbBits - 1, y[1], y[2]>>
                           ELSE <<0, 0, y[1], y[2]>>

(* idmap.IdmapEntry: Isuid, Isgid bool; Hostid, Nsid, Maprange int64 *)
IdmapEntry(isuid, isgid, hostid, nsid, maprange) ==
  [Isuid |-> isuid, Isgid |-> isgid, Hostid |-> hostid, Nsid |-> nsid, Maprange |-> maprange]

(* *idmap.IdmapSet: a nil pointer, or a set with its Idmap slice *)
IdmapSet(list) == [isNil |-> FALSE, Idmap |-> list]
NoIdmapSet == [isNil |-> TRUE, Idmap |-> <<>>]

(* the IdmapSet of the daemon that the tests start *)
DaemonIdmapSet ==
  IdmapSet(<<IdmapEntry(TRUE, FALSE, I64(0, 0, 1, 34464), I64(0, 0, 0, 0), I64(0, 0, 7, 41248)),
             IdmapEntry(FALSE, TRUE, I64(0, 0, 1, 34464), I64(0, 0, 0, 0), I64(0, 0, 7, 41248))>>)

(* migration.IDMapType of an entry of the container's IdmapSet *)
IDMapType(ctnIdmap) ==
  [isuid |-> ctnIdmap.Isuid, isgid |-> ctnIdmap.Isgid,
   hostid |-> Int32(ctnIdmap.Hostid), nsid |-> Int32(ctnIdmap.Nsid),
   maprange |-> Int32(ctnIdmap.Maprange)]

(* idmaps of Do: empty when idmapset == nil *)
Idmaps(set) ==
  IF set.isNil THEN <<>> ELSE [i \in 1..Len(set.Idmap) |-> IDMapType(set.Idmap[i])]

(* idmap.Extend(slice, element): the slice with the element appended *)
Extend(slice, element) == Append(slice, element)

(* srcIdmap of the sink: one entry per IDMapType of the header, in order *)
RECURSIVE RebuildIdmap(_)
RebuildIdmap(list) ==
  IF list = <<>> THEN <<>>
  ELSE Extend(RebuildIdmap(SubSeq(list, 1, Len(list) - 1)),
              LET e == list[Len(list)]
              IN IdmapEntry(e.isuid, e.isgid, Int64(e.hostid), Int64(e.nsid), Int64(e.maprange)))
Ctl(ok, hasMsg) == Frame("control", "RSYNC", Absent, ok, hasMsg)
CloseFrame == Frame("close", "RSYNC", Absent, FALSE, FALSE)

VARIABLES
  pc,            \* position of every goroutine
  stack,         \* return labels of the calls in progress
  arg,           \* the err argument of the sendControl being run
  msg,           \* the message argument of the send being run
  res,           \* error returned by the last send / recv (Nil: none)
  controlLock,   \* migrationFields.controlLock: the holder, or Free
  controlConn,   \* migrationFields.controlConn: "nil" or "open"
  fsConn,        \* migrationFields.fsConn: "nil", "open" or "closed"
  criuConn,      \* migrationFields.criuConn
  writing,       \* goroutines with a write in flight on the control conn
  sent,          \* frames written on the control conn, per writing side
  panicked,      \* the daemon of that side died of a Go panic
  calls,         \* SpecFields: method calls started so far
  live,          \* migrationFields.live
  allConnected,  \* values buffered in the allConnected channel (capacity 1)
  signals,       \* sends on allConnected completed so far
  boundBy,       \* source: the Connect whose websocket each channel holds
  firstBound,    \* source: the first Connect that attached each channel
  secret,        \* the secret each Connect request presents
  reused,        \* the request's secret had already attached its channel
  fsType,        \* Storage().MigrationType() of each side's container
  actionScript,  \* util.RuntimeLiblxcVersionAtLeast(2, 0, 4) on the source
  withMessage,   \* a MigrationControl carries the optional message field
  fullSnaps,     \* source: the names of the snapshots driver.Snapshots() lists
  idmapset,      \* source: what s.container.IdmapSet() returns
  faultBudget,   \* the number of operations that may fail in this run
  running,       \* c.IsRunning() of the container NewMigrationSource is given
  criuInstalled, \* exec.LookPath("criu") finds the tool, on each side
  ret,           \* the operation NewMigrationSource returns
  secrets,       \* the dictionary Metadata() returns, given to the sink
  sink,          \* the operation NewMigrationSink returns
  ctn,           \* the container snapshotToProtobuf is given
  descriptor,    \* the migration.Snapshot snapshotToProtobuf returns
  rd,            \* frames of the peer's control conn each side has read
  expect,        \* the message type the recv being run decodes into
  rcvd,          \* the frame the last recv of each goroutine decoded
  header,        \* the local variable header of each side's Do
  doErr,         \* the error each side's Do is about to return
  doRet,         \* what each side's Do returned ("running" before that)
  log,           \* the steps each side has completed so far
  driver,        \* source: the driver handle in use (0: none)
  obtained,      \* source: the driver handles obtained so far
  cleanups,      \* source: Cleanup() calls on each driver handle
  fsErr,         \* source: the error of MigrationSource
  storageStarted,\* source: StorageStart succeeded (StorageStop deferred)
  restoreSuccess,\* source: the restoreSuccess channel (capacity 1)
  dumpSuccess,   \* source: the dumpSuccess channel (capacity 1)
  dumpDone,      \* source: the dumpDone channel (capacity 1)
  sinkFmt,       \* sink: the format mySink receives ("none" before)
  snapshots,     \* sink: the snapshot descriptors handed to mySink
  srcIdmap,      \* sink: the IdmapSet rebuilt from header.Idmap
  offer,         \* the value a goroutine is sending on an unbuffered channel
  firstFailed,   \* sink: the error of the transfer branch that failed first
  sourceCh,      \* sink: the channel of controlChannel(): "open" or "closed"
  faults         \* operations that have failed so far

threadVars == <<pc, stack, arg, msg, res>>
fieldsVars == <<controlLock, controlConn, fsConn, criuConn, writing, sent, panicked>>
connVars == <<live, allConnected, signals, boundBy, firstBound, secret, reused>>
ctorVars == <<running, criuInstalled, ret, secrets, sink>>
descVars == <<ctn, descriptor>>
inputVars == <<fsType, actionScript, withMessage, fullSnaps, idmapset, faultBudget, ctorVars, descVars>>
netVars == <<rd, expect, rcvd, header>>
retVars == <<doErr, doRet>>
drvVars == <<driver, obtained, cleanups, fsErr, storageStarted>>
chanVars == <<restoreSuccess, dumpSuccess, dumpDone>>
sinkVars == <<sinkFmt, snapshots, srcIdmap, offer, firstFailed, sourceCh>>
protoVars == <<inputVars, netVars, retVars, log, drvVars, chanVars, sinkVars>>
envVars == <<calls, connVars, protoVars>>
vars == <<threadVars, fieldsVars, calls, connVars, protoVars, faults>>

(* ------------------------- calls and returns --------------------------- *)
(* an operation ends well (ok) or fails; failures are counted *)
Outcome(ok) ==
  /\ ok \/ faults < faultBudget
  /\ faults' = IF ok THEN faults ELSE faults + 1

Alive(t) == ~panicked[SideOf(t)]

At(t, label) == pc[t] = label /\ Alive(t)

Goto(t, label) == pc' = [pc EXCEPT ![t] = label]

Call(t, entry, continueAt) ==
  /\ pc' = [pc EXCEPT ![t] = entry]
  /\ stack' = [stack EXCEPT ![t] = <<continueAt>> \o @]

Return(t) ==
  /\ pc' = [pc EXCEPT ![t] = Head(stack[t])]
  /\ stack' = [stack EXCEPT ![t] = Tail(@)]

Panic(t) ==
  /\ panicked' = [panicked EXCEPT ![SideOf(t)] = TRUE]
  /\ pc' = [pc EXCEPT ![t] = "panic"]

(* sync.Mutex: Lock blocks while the mutex is held, by anyone, the caller  *)
(* included; Unlock releases it.                                           *)
Lock(t) ==
  /\ controlLock[SideOf(t)] = Free
  /\ controlLock' = [controlLock EXCEPT ![SideOf(t)] = t]

Unlock(t) == controlLock' = [controlLock EXCEPT ![SideOf(t)] = Free]

BeginWrite(t) == writing' = [writing EXCEPT ![SideOf(t)] = @ \cup {t}]

EndWrite(t) == writing' = [writing EXCEPT ![SideOf(t)] = @ \ {t}]

Wrote(t, frame) == sent' = [sent EXCEPT ![SideOf(t)] = Append(@, frame)]

(* migration.ProtoSendControl(conn, err): the MigrationControl it writes;  *)
(* success is required; message is the "optional failure message" of       *)
(* migrate.proto, which a writer may leave out.                            *)
ProtoSendControl(err) == Ctl(err = Nil, withMessage)

(* ---------------------- migrationFields.send --------------------------- *)
Send_Lock_NoLock(t) ==
  /\ At(t, "send_lock")
  /\ Goto(t, "send_write")
  /\ UNCHANGED <<stack, arg, msg, res, fieldsVars, envVars>>
  /\ UNCHANGED faults

Send_Lock(t) ==
  /\ At(t, "send_lock")
  /\ Lock(t)
  /\ Goto(t, "send_write")
  /\ UNCHANGED <<stack, arg, msg, res, controlConn, fsConn, criuConn, writing, sent, panicked, envVars>>
  /\ UNCHANGED faults

(* ProtoSend starts writing; a nil *websocket.Conn makes it panic *)
Send_Write(t) ==
  /\ At(t, "send_write")
  /\ IF controlConn[SideOf(t)] = "nil"
       THEN /\ Panic(t)
            /\ UNCHANGED writing
       ELSE /\ BeginWrite(t)
            /\ Goto(t, "send_writing")
            /\ UNCHANGED panicked
  /\ UNCHANGED <<stack, arg, msg, res, controlLock, controlConn, fsConn, criuConn, sent, envVars>>
  /\ UNCHANGED faults

(* the write ends, with or without an I/O error; the deferred Unlock runs *)
Send_Done(t) ==
  /\ At(t, "send_writing")
  /\ EndWrite(t)
  /\ \E ok \in BOOLEAN :
       /\ Outcome(ok)
       /\ res' = [res EXCEPT ![t] = IF ok THEN Nil ELSE "E_send"]
       /\ IF ok THEN Wrote(t, msg[t]) ELSE UNCHANGED sent
  /\ Unlock(t)
  /\ Return(t)
  /\ UNCHANGED <<arg, msg, controlConn, fsConn, criuConn, panicked, envVars>>

(* -------------------- migrationFields.sendControl ---------------------- *)
SendControl_Lock(t) ==
  /\ At(t, "sendControl_lock")
  /\ Lock(t)
  /\ Goto(t, "sendControl_write")
  /\ UNCHANGED <<stack, arg, msg, res, controlConn, fsConn, criuConn, writing, sent, panicked, envVars>>
  /\ UNCHANGED faults

SendControl_Write(t) ==
  /\ At(t, "sendControl_write")
  /\ IF controlConn[SideOf(t)] = "nil"
       THEN /\ Panic(t)
            /\ UNCHANGED writing
       ELSE /\ BeginWrite(t)
            /\ Goto(t, "sendControl_writing")
            /\ UNCHANGED panicked
  /\ UNCHANGED <<stack, arg, msg, res, controlLock, controlConn, fsConn, criuConn, sent, envVars>>
  /\ UNCHANGED faults

(* the write ends (its error is dropped); with a non-nil err, disconnect   *)
(* is called while controlLock is still held: the Unlock is deferred       *)
SendControl_Written(t) ==
  /\ At(t, "sendControl_writing")
  /\ EndWrite(t)
  /\ \E ok \in BOOLEAN :
       Outcome(ok) /\ IF ok THEN Wrote(t, ProtoSendControl(arg[t])) ELSE UNCHANGED sent
  /\ IF arg[t] # Nil
       THEN Call(t, "disconnect_lock", "sendControl_unlock")
       ELSE Goto(t, "sendControl_unlock") /\ UNCHANGED stack
  /\ UNCHANGED <<arg, msg, res, controlLock, controlConn, fsConn, criuConn, panicked, envVars>>

SendControl_Unlock(t) ==
  /\ At(t, "sendControl_unlock")
  /\ Unlock(t)
  /\ Return(t)
  /\ UNCHANGED <<arg, msg, res, controlConn, fsConn, criuConn, writing, sent, panicked, envVars>>
  /\ UNCHANGED faults

(* --------------------- migrationFields.disconnect ---------------------- *)
Disconnect_Lock(t) ==
  /\ At(t, "disconnect_lock")
  /\ Lock(t)
  /\ Goto(t, "disconnect_close")
  /\ UNCHANGED <<stack, arg, msg, res, controlConn, fsConn, criuConn, writing, sent, panicked, envVars>>
  /\ UNCHANGED faults

(* the close frame is written only while controlConn is not nil *)
Disconnect_Close(t) ==
  /\ At(t, "disconnect_close")
  /\ IF controlConn[SideOf(t)] # "nil"
       THEN BeginWrite(t) /\ Goto(t, "disconnect_closing")
       ELSE UNCHANGED writing /\ Goto(t, "disconnect_unlock")
  /\ UNCHANGED <<stack, arg, msg, res, controlLock, controlConn, fsConn, criuConn, sent, panicked, envVars>>
  /\ UNCHANGED faults

Disconnect_Closed_KeepsConn(t) ==
  /\ At(t, "disconnect_closing")
  /\ EndWrite(t)
  /\ Wrote(t, CloseFrame)
  /\ Goto(t, "disconnect_unlock")
  /\ UNCHANGED <<stack, arg, msg, res, controlLock, controlConn, fsConn, criuConn, panicked, envVars>>
  /\ UNCHANGED faults

(* WriteMessage(websocket.CloseMessage, closeMsg); c.controlConn = nil *)
Disconnect_Closed(t) ==
  /\ At(t, "disconnect_closing")
  /\ EndWrite(t)
  /\ Wrote(t, CloseFrame)
  /\ controlConn' = [controlConn EXCEPT ![SideOf(t)] = "nil"]
  /\ Goto(t, "disconnect_unlock")
  /\ UNCHANGED <<stack, arg, msg, res, controlLock, fsConn, criuConn, panicked, envVars>>
  /\ UNCHANGED faults

RawClose(c) == IF c = "nil" THEN "nil" ELSE "closed"

(* Unlock, then fsConn.Close() and criuConn.Close() when they are not nil *)
Disconnect_Raw(t) ==
  /\ At(t, "disconnect_unlock")
  /\ Unlock(t)
  /\ fsConn' = [fsConn EXCEPT ![SideOf(t)] = RawClose(@)]
  /\ criuConn' = [criuConn EXCEPT ![SideOf(t)] = RawClose(@)]
  /\ Return(t)
  /\ UNCHANGED <<arg, msg, res, controlConn, writing, sent, panicked, envVars>>
  /\ UNCHANGED faults

FieldsStep(t) ==
  \/ Send_Lock(t)
  \/ Send_Write(t)
  \/ Send_Done(t)
  \/ SendControl_Lock(t)
  \/ SendControl_Write(t)
  \/ SendControl_Written(t)
  \/ SendControl_Unlock(t)
  \/ Disconnect_Lock(t)
  \/ Disconnect_Close(t)
  \/ Disconnect_Closed(t)
  \/ Disconnect_Raw(t)

(* ------------- SpecFields: goroutines calling the writers -------------- *)
Writer_CallSend(t) ==
  /\ At(t, "idle")
  /\ calls < MaxCalls
  /\ calls' = calls + 1
  /\ \E fs \in {"RSYNC", "ZFS"} : msg' = [msg EXCEPT ![t] = Hdr(fs, Absent)]
  /\ Call(t, "send_lock", "idle")
  /\ UNCHANGED <<arg, res, fieldsVars, connVars, protoVars>>
  /\ UNCHANGED faults

Writer_CallSendControl(t) ==
  /\ At(t, "idle")
  /\ calls < MaxCalls
  /\ calls' = calls + 1
  /\ \E err \in {Nil, "E_failed"} : arg' = [arg EXCEPT ![t] = err]
  /\ Call(t, "sendControl_lock", "idle")
  /\ UNCHANGED <<msg, res, fieldsVars, connVars, protoVars>>
  /\ UNCHANGED faults

Writer_CallDisconnect(t) ==
  /\ At(t, "idle")
  /\ calls < MaxCalls
  /\ calls' = calls + 1
  /\ Call(t, "disconnect_lock", "idle")
  /\ UNCHANGED <<arg, msg, res, fieldsVars, connVars, protoVars>>
  /\ UNCHANGED faults

WriterStep(t) ==
  \/ Writer_CallSend(t)
  \/ Writer_CallSendControl(t)
  \/ Writer_CallDisconnect(t)
  \/ FieldsStep(t)

InitThreads(active, start) ==
  /\ pc = [t \in Threads |-> IF t \in active THEN start ELSE "off"]
  /\ stack = [t \in Threads |-> <<>>]
  /\ arg = [t \in Threads |-> Nil]
  /\ msg = [t \in Threads |-> Hdr("RSYNC", Absent)]
  /\ res = [t \in Threads |-> Nil]

InitFieldsOf(attached) ==
  /\ controlLock = [s \in Sides |-> Free]
  /\ controlConn = [s \in Sides |-> IF s \in attached THEN "open" ELSE "nil"]
  /\ fsConn = [s \in Sides |-> IF s \in attached THEN "open" ELSE "nil"]
  /\ criuConn = [s \in Sides |-> IF s \in attached THEN "open" ELSE "nil"]
  /\ writing = [s \in Sides |-> {}]
  /\ sent = [s \in Sides |-> <<>>]
  /\ panicked = [s \in Sides |-> FALSE]

None == <<"none", 0>>
Channels == {"control", "fs", "criu"}

InitConn(isLive, signalled) ==
  /\ live = isLive
  /\ allConnected = signalled
  /\ signals = signalled
  /\ boundBy = [ch \in Channels |-> None]
  /\ firstBound = [ch \in Channels |-> None]
  /\ secret = [h \in Handlers |-> ""]
  /\ reused = [h \in Handlers |-> FALSE]

Handles == {1, 2}

(* container names are strings of characters; a snapshot is called         *)
(* <parent>/<snapshot>                                                     *)
SnapshotDelimiter == "/"
Characters == {"c", SnapshotDelimiter}

IsSnapshot(name) == \E i \in 1..Len(name) : name[i] = SnapshotDelimiter

SnapshotNames == {n \in UNION {[1..k -> Characters] : k \in 1..MaxNameLen} : IsSnapshot(n)}

Listings == UNION {[1..k -> SnapshotNames] : k \in 0..MaxSnaps}

OneSnapshot == << <<"c", "/", "c">> >>

(* --------- NewMigrationSource, Metadata, NewMigrationSink -------------- *)
(* what shared.RandomCryptoString() returns: a string of 64 hex digits, or *)
(* an error                                                                *)
RandomPool == <<"secret-control", "secret-fs", "secret-criu", "secret-other">>
RandomStrings == {RandomPool[i] : i \in 1..MaxRandoms}
RandomError == "E_random"
RandomResults == RandomStrings \cup {RandomError}

(* a constructor that returned nil and an error, or was not called yet *)
NoOperation ==
  [built |-> FALSE, err |-> Nil, live |-> FALSE,
   controlSecret |-> "", fsSecret |-> "", criuSecret |-> ""]

Fails(e) == [NoOperation EXCEPT !.err = e]

Built(isLive, control, fs, criu) ==
  [built |-> TRUE, err |-> Nil, live |-> isLive,
   controlSecret |-> control, fsSecret |-> fs, criuSecret |-> criu]

(* NewMigrationSource(c): r1, r2, r3 are the results of the calls of       *)
(* RandomCryptoString, the third one made only for a running container     *)
NewMigrationSource(isRunning, hasCriu, r1, r2, r3) ==
  IF r1 = RandomError THEN Fails("E_random")
  ELSE IF r2 = RandomError THEN Fails("E_random")
  ELSE IF isRunning
    THEN IF ~hasCriu THEN Fails("E_no_criu")
         ELSE IF r3 = RandomError THEN Fails("E_random")
         ELSE Built(TRUE, r1, r2, r3)
    ELSE Built(FALSE, r1, r2, "")

MetadataAlwaysCriu(s) ==
  [k \in {"control", "fs", "criu"} |->
     CASE k = "control" -> s.controlSecret
       [] k = "fs" -> s.fsSecret
       [] OTHER -> s.criuSecret]

(* Metadata(): control and fs, and criu when s.criuSecret != "" *)
Metadata(s) ==
  [k \in {"control", "fs"} \cup (IF s.criuSecret # "" THEN {"criu"} ELSE {}) |->
     CASE k = "control" -> s.controlSecret
       [] k = "fs" -> s.fsSecret
       [] OTHER -> s.criuSecret]

NoSecrets == [k \in {} |-> ""]

(* NewMigrationSink(args): args.Secrets must hold control and fs; live is  *)
(* the presence of criu                                                    *)
NewMigrationSink(args, hasCriu) ==
  IF "control" \notin DOMAIN args THEN Fails("E_missing_control")
  ELSE IF "fs" \notin DOMAIN args THEN Fails("E_missing_fs")
  ELSE IF "criu" \in DOMAIN args /\ ~hasCriu THEN Fails("E_no_criu")
  ELSE Built("criu" \in DOMAIN args, args["control"], args["fs"],
             IF "criu" \in DOMAIN args THEN args["criu"] ELSE "")

controlSecret == "secret-control"
fsSecret == "secret-fs"
criuSecret == IF live THEN "secret-criu" ELSE ""

(* the operations of a migration under way were built by the constructors *)
InitBuilt ==
  /\ running = live
  /\ criuInstalled = [s \in Sides |-> TRUE]
  /\ ret = NewMigrationSource(live, TRUE, controlSecret, fsSecret, "secret-criu")
  /\ secrets = Metadata(ret)
  /\ sink = NewMigrationSink(secrets, TRUE)

InitMigration(srcType, sinkType, script, message, snaps, budget) ==
  /\ fsType = [s \in Sides |-> IF s = "source" THEN srcType ELSE sinkType]
  /\ actionScript = script
  /\ withMessage = message
  /\ fullSnaps = snaps
  /\ faultBudget = budget
  /\ rd = [s \in Sides |-> 0]
  /\ expect = [t \in Threads |-> "header"]
  /\ rcvd = [t \in Threads |-> CloseFrame]
  /\ header = [s \in Sides |-> Hdr("RSYNC", Absent)]
  /\ doErr = [s \in Sides |-> Nil]
  /\ doRet = [s \in Sides |-> "running"]
  /\ log = [s \in Sides |-> {}]
  /\ driver = 0
  /\ obtained = {}
  /\ cleanups = [h \in Handles |-> 0]
  /\ fsErr = Nil
  /\ storageStarted = FALSE
  /\ restoreSuccess = <<>>
  /\ dumpSuccess = <<>>
  /\ dumpDone = 0
  /\ sinkFmt = "none"
  /\ snapshots = <<>>
  /\ srcIdmap = <<>>
  /\ offer = [t \in Threads |-> Nil]
  /\ firstFailed = Nil
  /\ sourceCh = "open"
  /\ faults = 0

(* no descriptor is being built outside the header *)
InitNoDescriptor ==
  /\ ctn = [name |-> <<"c">>, config |-> <<>>, devices |-> <<>>]
  /\ descriptor = [built |-> FALSE]

InitProto(srcType, sinkType, script, message, snaps, budget) ==
  /\ InitMigration(srcType, sinkType, script, message, snaps, budget)
  /\ InitBuilt
  /\ idmapset = DaemonIdmapSet
  /\ InitNoDescriptor

InitFields ==
  /\ InitThreads(Writers, "idle")
  /\ InitFieldsOf({"sink"})
  /\ calls = 0
  /\ InitConn(TRUE, 0)
  /\ InitProto("RSYNC", "RSYNC", TRUE, TRUE, <<>>, MaxFaults)

NextFields == \E t \in Writers : WriterStep(t)

SpecFields == InitFields /\ [][NextFields]_vars

(* the Go scheduler runs every runnable goroutine *)
FairSpecFields == SpecFields /\ \A t \in Writers : WF_vars(WriterStep(t))

(* --------------------- migrationSourceWs.Connect ----------------------- *)
Presented == {"", "secret-control", "secret-fs", "secret-criu", "secret-other"}

ConnOfDefaultsToFs(sec) ==
  CASE sec = controlSecret -> "control"
    [] sec = criuSecret -> "criu"
    [] OTHER -> "fs"

(* the switch on the secret: control, then criu, then fs *)
ConnOf(sec) ==
  CASE sec = controlSecret -> "control"
    [] sec = criuSecret -> "criu"
    [] sec = fsSecret -> "fs"
    [] OTHER -> "none"

Attached(ch) ==
  CASE ch = "control" -> controlConn["source"] # "nil"
    [] ch = "fs" -> fsConn["source"] # "nil"
    [] ch = "criu" -> criuConn["source"] # "nil"
    [] OTHER -> FALSE

GateWithoutCriu(control, criu, fs) == control # "nil" /\ fs # "nil"

(* s.controlConn != nil && (!s.live || s.criuConn != nil) && s.fsConn != nil *)
Gate(control, criu, fs) == control # "nil" /\ (~live \/ criu # "nil") /\ fs # "nil"

MissingSecretNever(sec) == FALSE

(* if secret == "" { return fmt.Errorf("missing secret") } *)
MissingSecret(sec) == sec = ""

(* the request arrives: the secret is read and matched *)
Connect_Request(h) ==
  /\ At(h, "connect_request")
  /\ \E sec \in Presented :
       /\ secret' = [secret EXCEPT ![h] = sec]
       /\ reused' = [reused EXCEPT ![h] = Attached(ConnOf(sec))]
       /\ IF MissingSecret(sec)
            THEN /\ res' = [res EXCEPT ![h] = "E_missing_secret"]
                 /\ Goto(h, "connect_done")
            ELSE IF ConnOf(sec) = "none"
              THEN /\ res' = [res EXCEPT ![h] = "ErrPermission"]
                   /\ Goto(h, "connect_done")
              ELSE /\ UNCHANGED res
                   /\ Goto(h, "connect_upgrade")
  /\ UNCHANGED <<stack, arg, msg, fieldsVars, calls, live, allConnected, signals, boundBy, firstBound, protoVars>>
  /\ UNCHANGED faults

(* the field of channel ch holds a websocket on these sides *)
Attach(sides, ch) ==
  /\ controlConn' = [s \in Sides |-> IF s \in sides /\ ch = "control" THEN "open" ELSE controlConn[s]]
  /\ fsConn' = [s \in Sides |-> IF s \in sides /\ ch = "fs" THEN "open" ELSE fsConn[s]]
  /\ criuConn' = [s \in Sides |-> IF s \in sides /\ ch = "criu" THEN "open" ELSE criuConn[s]]

Bind(ch, by) ==
  /\ boundBy' = [boundBy EXCEPT ![ch] = by]
  /\ firstBound' = [firstBound EXCEPT ![ch] = IF @ = None THEN by ELSE @]

(* *conn = c *)
Assign(ch, by) == Attach({"source"}, ch) /\ Bind(ch, by)

Connect_UpgradeAssignsFirst(h) ==
  /\ At(h, "connect_upgrade")
  /\ \E ok \in BOOLEAN :
       Outcome(ok) /\ IF ok
         THEN /\ Goto(h, "connect_assign")
              /\ UNCHANGED <<res, controlConn, fsConn, criuConn, boundBy, firstBound>>
         ELSE /\ Goto(h, "connect_done")
              /\ res' = [res EXCEPT ![h] = "E_upgrade"]
              /\ Assign(ConnOf(secret[h]), h)
  /\ UNCHANGED <<stack, arg, msg, controlLock, writing, sent, panicked>>
  /\ UNCHANGED <<calls, live, allConnected, signals, secret, reused, protoVars>>

(* shared.WebsocketUpgrader.Upgrade; if err != nil { return err } *)
Connect_Upgrade(h) ==
  /\ At(h, "connect_upgrade")
  /\ \E ok \in BOOLEAN :
       Outcome(ok) /\ IF ok
         THEN Goto(h, "connect_assign") /\ UNCHANGED res
         ELSE Goto(h, "connect_done") /\ res' = [res EXCEPT ![h] = "E_upgrade"]
  /\ UNCHANGED <<stack, arg, msg, fieldsVars, envVars>>

Connect_Assign(h) ==
  /\ At(h, "connect_assign")
  /\ Assign(ConnOf(secret[h]), h)
  /\ Goto(h, "connect_gate")
  /\ UNCHANGED <<stack, arg, msg, res, controlLock, writing, sent, panicked>>
  /\ UNCHANGED <<calls, live, allConnected, signals, secret, reused, protoVars>>
  /\ UNCHANGED faults

(* the gating condition is read *)
Connect_Gate(h) ==
  /\ At(h, "connect_gate")
  /\ IF Gate(controlConn["source"], criuConn["source"], fsConn["source"])
       THEN Goto(h, "connect_signal") /\ UNCHANGED res
       ELSE Goto(h, "connect_done") /\ res' = [res EXCEPT ![h] = Nil]
  /\ UNCHANGED <<stack, arg, msg, fieldsVars, envVars>>
  /\ UNCHANGED faults

(* s.allConnected <- true: blocks while the buffer of one value is full *)
Connect_Signal(h) ==
  /\ At(h, "connect_signal")
  /\ allConnected < 1
  /\ allConnected' = allConnected + 1
  /\ signals' = signals + 1
  /\ res' = [res EXCEPT ![h] = Nil]
  /\ Goto(h, "connect_done")
  /\ UNCHANGED <<stack, arg, msg, fieldsVars, calls, live, boundBy, firstBound, secret, reused, protoVars>>
  /\ UNCHANGED faults

ConnectStep(h) ==
  \/ Connect_Request(h)
  \/ Connect_Upgrade(h)
  \/ Connect_Assign(h)
  \/ Connect_Gate(h)
  \/ Connect_Signal(h)

(* Do: <-s.allConnected *)
Do_Wait ==
  /\ At(SrcDo, "do_wait")
  /\ allConnected > 0
  /\ allConnected' = allConnected - 1
  /\ Goto(SrcDo, "do_start")
  /\ UNCHANGED <<stack, arg, msg, res, fieldsVars, calls, live, signals, boundBy, firstBound, secret, reused, protoVars>>
  /\ UNCHANGED faults

InitSpecConn ==
  /\ pc = [t \in Threads |-> IF t \in Handlers THEN "connect_request"
                             ELSE IF t = SrcDo THEN "do_wait" ELSE "off"]
  /\ stack = [t \in Threads |-> <<>>]
  /\ arg = [t \in Threads |-> Nil]
  /\ msg = [t \in Threads |-> Hdr("RSYNC", Absent)]
  /\ res = [t \in Threads |-> Nil]
  /\ InitFieldsOf({})
  /\ calls = 0
  /\ \E isLive \in BOOLEAN : InitConn(isLive, 0)
  /\ InitProto("RSYNC", "RSYNC", TRUE, TRUE, <<>>, MaxFaults)

NextConn ==
  \/ \E h \in Handlers : ConnectStep(h)
  \/ Do_Wait

SpecConn == InitSpecConn /\ [][NextConn]_vars

(* ============ Spec: one migration, source Do against sink Do =========== *)
quiet == <<fieldsVars, calls, connVars, inputVars>>

Logged(s, e) == log' = [log EXCEPT ![s] = @ \cup {e}]

Did(s, e) == e \in log[s]

(* ---------------------- migrationFields.recv --------------------------- *)
CanRecv(s) == rd[s] < Len(sent[Peer(s)])

NextFrame(s) == sent[Peer(s)][rd[s] + 1]

(* ProtoRecv reads the next frame and decodes it into the expected message *)
Recv_Frame(t) ==
  /\ At(t, "recv")
  /\ CanRecv(SideOf(t))
  /\ rd' = [rd EXCEPT ![SideOf(t)] = @ + 1]
  /\ IF NextFrame(SideOf(t)).type = expect[t]
       THEN /\ rcvd' = [rcvd EXCEPT ![t] = NextFrame(SideOf(t))]
            /\ res' = [res EXCEPT ![t] = Nil]
       ELSE /\ UNCHANGED rcvd
            /\ res' = [res EXCEPT ![t] = "E_recv"]
  /\ Return(t)
  /\ UNCHANGED <<arg, msg, quiet, expect, header, retVars, log, drvVars, chanVars, sinkVars>>
  /\ UNCHANGED faults

(* the read fails: the connection broke *)
Recv_Fault(t) ==
  /\ At(t, "recv")
  /\ res' = [res EXCEPT ![t] = "E_recv"]
  /\ Return(t)
  /\ UNCHANGED <<arg, msg, quiet, netVars, retVars, log, drvVars, chanVars, sinkVars>>
  /\ Outcome(FALSE)

(* ----------------------- migrationSourceWs.Do -------------------------- *)
CallSendControl(t, err, continueAt) ==
  /\ arg' = [arg EXCEPT ![t] = err]
  /\ doErr' = [doErr EXCEPT ![SideOf(t)] = err]
  /\ Call(t, "sendControl_lock", continueAt)

CriuTypeAlways(isLive) == "CRIU_RSYNC"

(* criuType: CRIU_RSYNC when live (the sink: when c.src.live), else nil *)
CriuTypeOf(isLive) == IF isLive THEN "CRIU_RSYNC" ELSE Absent

(* s.container.StorageStart() when not live; StorageStop is deferred *)
Src_StorageStart ==
  /\ At(SrcDo, "do_start")
  /\ IF live
       THEN /\ Goto(SrcDo, "do_idmap")
            /\ UNCHANGED <<log, storageStarted, doErr, faults>>
       ELSE \E ok \in BOOLEAN :
              Outcome(ok) /\ IF ok
                THEN /\ Logged("source", "StorageStart")
                     /\ storageStarted' = TRUE
                     /\ Goto(SrcDo, "do_idmap")
                     /\ UNCHANGED doErr
                ELSE /\ doErr' = [doErr EXCEPT !["source"] = "E_storage_start"]
                     /\ Goto(SrcDo, "do_return")
                     /\ UNCHANGED <<log, storageStarted>>
  /\ UNCHANGED <<stack, arg, msg, res, quiet, netVars, doRet, driver, obtained, cleanups, fsErr, chanVars, sinkVars>>

(* s.container.IdmapSet() *)
Src_IdmapSet ==
  /\ At(SrcDo, "do_idmap")
  /\ \E ok \in BOOLEAN :
       Outcome(ok) /\ IF ok
         THEN Goto(SrcDo, "do_driver") /\ UNCHANGED doErr
         ELSE /\ doErr' = [doErr EXCEPT !["source"] = "E_idmap"]
              /\ Goto(SrcDo, "do_return")
  /\ UNCHANGED <<stack, arg, msg, res, quiet, netVars, doRet, log, drvVars, chanVars, sinkVars>>

(* strings.SplitN(name, SnapshotDelimiter, 2): the name is cut at the first *)
(* delimiter, into one part when it holds none                             *)
SplitN2(name) ==
  IF \E i \in 1..Len(name) : name[i] = SnapshotDelimiter
    THEN LET i == CHOOSE k \in 1..Len(name) :
                    /\ name[k] = SnapshotDelimiter
                    /\ \A j \in 1..(k - 1) : name[j] # SnapshotDelimiter
         IN <<SubSeq(name, 1, i - 1), SubSeq(name, i + 1, Len(name))>>
    ELSE <<name>>

ExtractSnapshotNameWhole(name) == name

(* strings.SplitN(name, SnapshotDelimiter, 2)[1], Go indices start at 0 *)
ExtractSnapshotName(name) == SplitN2(name)[2]

(* c.LocalConfig(), c.LocalDevices(), c.Profiles(), ... of the container    *)
(* called name                                                             *)
LocalConfig(name) == <<"config of", name>>

(* the migration.Snapshot of a container: Name is parts[len(parts)-1], the *)
(* other fields are copied from the container                              *)
snapshotToProtobuf(name) ==
  [name |-> SplitN2(name)[Len(SplitN2(name))], localConfig |-> LocalConfig(name)]

(* the header of Do: the lists are filled only when fsErr == nil *)
OpeningHeader(err) ==
  [Hdr(fsType["source"], CriuTypeOf(live)) EXCEPT
     !.idmap = Idmaps(idmapset),
     !.snapshotNames = IF err = Nil
                         THEN [i \in 1..Len(fullSnaps) |-> ExtractSnapshotName(fullSnaps[i])]
                         ELSE <<>>,
     !.snapshots = IF err = Nil
                     THEN [i \in 1..Len(fullSnaps) |-> snapshotToProtobuf(fullSnaps[i])]
                     ELSE <<>>]

(* Storage().MigrationSource(), then the opening header is built and sent *)
Src_MigrationSource ==
  /\ At(SrcDo, "do_driver")
  /\ \E ok \in BOOLEAN :
       Outcome(ok) /\ IF ok
         THEN driver' = 1 /\ obtained' = {1} /\ fsErr' = Nil
         ELSE driver' = 0 /\ obtained' = {} /\ fsErr' = "E_no_driver"
  /\ msg' = [msg EXCEPT ![SrcDo] = OpeningHeader(fsErr')]
  /\ Call(SrcDo, "send_lock", "do_header_sent")
  /\ UNCHANGED <<arg, res, quiet, netVars, retVars, log, cleanups, storageStarted, chanVars, sinkVars>>

DriverMissingIgnored(err) == FALSE

(* if fsErr != nil { s.sendControl(fsErr); return fsErr } *)
DriverMissing(err) == err # Nil

(* the header send failed, or there is no driver: sendControl and return;  *)
(* otherwise read the sink's echo                                          *)
Src_HeaderSent ==
  /\ At(SrcDo, "do_header_sent")
  /\ IF res[SrcDo] # Nil
       THEN CallSendControl(SrcDo, res[SrcDo], "do_return") /\ UNCHANGED expect
       ELSE IF DriverMissing(fsErr)
         THEN CallSendControl(SrcDo, fsErr, "do_return") /\ UNCHANGED expect
         ELSE /\ expect' = [expect EXCEPT ![SrcDo] = "header"]
              /\ Call(SrcDo, "recv", "do_echo")
              /\ UNCHANGED <<arg, doErr>>
  /\ UNCHANGED <<msg, res, quiet, rd, rcvd, header, doRet, log, drvVars, chanVars, sinkVars>>
  /\ UNCHANGED faults

RenegotiateKeepsDriver(echoFs) == FALSE

(* if *header.Fs != myType: the rsync driver replaces the storage's driver *)
Renegotiate(echoFs) == echoFs # fsType["source"]

Src_Echo ==
  /\ At(SrcDo, "do_echo")
  /\ IF res[SrcDo] # Nil
       THEN /\ CallSendControl(SrcDo, res[SrcDo], "do_return")
            /\ UNCHANGED <<header, driver, obtained, log>>
       ELSE /\ header' = [header EXCEPT !["source"] =
                 IF Renegotiate(rcvd[SrcDo].fs)
                   THEN Hdr("RSYNC", rcvd[SrcDo].criu) ELSE rcvd[SrcDo]]
            /\ IF Renegotiate(rcvd[SrcDo].fs)
                 THEN driver' = 2 /\ obtained' = obtained \cup {2}
                 ELSE UNCHANGED <<driver, obtained>>
            /\ Logged("source", "Negotiated")
            /\ Goto(SrcDo, "do_send_running")
            /\ UNCHANGED <<stack, arg, doErr>>
  /\ UNCHANGED <<msg, res, quiet, rd, expect, rcvd, doRet, cleanups, fsErr, storageStarted, chanVars, sinkVars>>
  /\ UNCHANGED faults

(* the format the driver handle sends: handle 1 is the storage's own driver *)
(* handle 2 is rsyncMigrationSource                                         *)
DriverFormat(h) == IF h = 1 THEN fsType["source"] ELSE "RSYNC"

Abort(err) ==
  /\ doErr' = [doErr EXCEPT !["source"] = err]
  /\ Goto(SrcDo, "abort")

AfterRunningSkipsCheckpoint(isLive) == "do_cleanup"

(* if s.live { the checkpoint part }; driver.Cleanup() *)
AfterRunning(isLive) == IF isLive THEN "do_criu" ELSE "do_cleanup"

(* driver.SendWhileRunning(s.fsConn) completes while the sink receives *)
Src_SendWhileRunning ==
  /\ At(SrcDo, "do_send_running")
  /\ pc[FsXfer] = "fsx_receive"
  /\ Logged("source", "SendWhileRunning")
  /\ Goto(SrcDo, AfterRunning(live))
  /\ UNCHANGED <<stack, arg, msg, res, quiet, netVars, retVars, drvVars, chanVars, sinkVars>>
  /\ UNCHANGED faults

Src_SendWhileRunningFail ==
  /\ At(SrcDo, "do_send_running")
  /\ Abort("E_send_while_running")
  /\ UNCHANGED <<stack, arg, msg, res, quiet, netVars, doRet, log, drvVars, chanVars, sinkVars>>
  /\ Outcome(FALSE)

(* the sink has closed its end of the connection: the transfer fails *)
Src_SendWhileRunningClosed ==
  /\ At(SrcDo, "do_send_running")
  /\ fsConn["sink"] = "closed"
  /\ Abort("E_send_while_running")
  /\ UNCHANGED <<stack, arg, msg, res, quiet, netVars, doRet, log, drvVars, chanVars, sinkVars>>
  /\ UNCHANGED faults

AbortCleanup ==
  /\ cleanups' = [cleanups EXCEPT ![driver] = @ + 1]
  /\ Logged("source", "Cleanup")

(* abort(err): driver.Cleanup(); s.sendControl(err); return err *)
Src_Abort ==
  /\ At(SrcDo, "abort")
  /\ AbortCleanup
  /\ CallSendControl(SrcDo, doErr["source"], "do_return")
  /\ UNCHANGED <<msg, res, quiet, netVars, doRet, driver, obtained, fsErr, storageStarted, chanVars, sinkVars>>
  /\ UNCHANGED faults

(* if header.Criu == nil *)
NoCriuType(h) == h.criu = Absent

OtherCriuTypeAccepted(h) == FALSE

(* else if *header.Criu != migration.CRIUType_CRIU_RSYNC *)
OtherCriuType(h) == h.criu # "CRIU_RSYNC"

(* the checks on header.Criu, then ioutil.TempDir *)
Src_Criu ==
  /\ At(SrcDo, "do_criu")
  /\ IF NoCriuType(header["source"])
       THEN Abort("E_no_criu_type") /\ UNCHANGED <<log, faults>>
       ELSE IF OtherCriuType(header["source"])
         THEN Abort("E_criu_format") /\ UNCHANGED <<log, faults>>
         ELSE \E ok \in BOOLEAN :
                Outcome(ok) /\ IF ok
                  THEN /\ Logged("source", "TempDir")
                       /\ Goto(SrcDo, IF actionScript THEN "do_script" ELSE "do_legacy_dump")
                       /\ UNCHANGED doErr
                  ELSE Abort("E_tempdir") /\ UNCHANGED log
  /\ UNCHANGED <<stack, arg, msg, res, quiet, netVars, doRet, drvVars, chanVars, sinkVars>>

(* the action-script operation is created and run, the script is written,  *)
(* and the dump worker is started; any failure removes checkpointDir       *)
Src_Script ==
  /\ At(SrcDo, "do_script")
  /\ \E ok \in BOOLEAN :
       Outcome(ok) /\ IF ok
         THEN /\ pc' = [pc EXCEPT ![SrcDo] = "do_select", ![AsOp] = "asop_wait", ![Dump] = "dump_run"]
              /\ Logged("source", "Migrate(dump)")
              /\ UNCHANGED doErr
         ELSE /\ Logged("source", "RemoveAll(checkpointDir)")
              /\ Abort("E_script_setup")
  /\ UNCHANGED <<stack, arg, msg, res, quiet, netVars, doRet, drvVars, chanVars, sinkVars>>

(* select: case err = <-dumpSuccess: return abort(err) *)
Src_SelectDumpSuccess ==
  /\ At(SrcDo, "do_select")
  /\ dumpSuccess # <<>>
  /\ dumpSuccess' = Tail(dumpSuccess)
  /\ Abort(Head(dumpSuccess))
  /\ UNCHANGED <<stack, arg, msg, res, quiet, netVars, doRet, log, drvVars, restoreSuccess, dumpDone, sinkVars>>
  /\ UNCHANGED faults

(* select: case <-dumpDone *)
Src_SelectDumpDone ==
  /\ At(SrcDo, "do_select")
  /\ dumpDone > 0
  /\ dumpDone' = dumpDone - 1
  /\ Logged("source", "dumpDone")
  /\ Goto(SrcDo, "do_rsync_send")
  /\ UNCHANGED <<stack, arg, msg, res, quiet, netVars, retVars, drvVars, restoreSuccess, dumpSuccess, sinkVars>>
  /\ UNCHANGED faults

(* liblxc older than 2.0.4: s.container.Migrate runs the dump synchronously *)
Src_LegacyDump ==
  /\ At(SrcDo, "do_legacy_dump")
  /\ Logged("source", "Migrate(dump)")
  /\ \E ok \in BOOLEAN :
       Outcome(ok) /\ IF ok
         THEN Goto(SrcDo, "do_rsync_send") /\ UNCHANGED doErr
         ELSE Abort("E_dump")
  /\ UNCHANGED <<stack, arg, msg, res, quiet, netVars, doRet, drvVars, chanVars, sinkVars>>

(* RsyncSend(checkpointDir) over s.criuConn completes while the sink's     *)
(* RsyncRecv runs                                                          *)
Src_RsyncSend ==
  /\ At(SrcDo, "do_rsync_send")
  /\ pc[Restore] = "restore_rsync"
  /\ Logged("source", "RsyncSend")
  /\ Goto(SrcDo, "do_send_after")
  /\ UNCHANGED <<stack, arg, msg, res, quiet, netVars, retVars, drvVars, chanVars, sinkVars>>
  /\ UNCHANGED faults

Src_RsyncSendFail ==
  /\ At(SrcDo, "do_rsync_send")
  /\ Abort("E_rsync_send")
  /\ UNCHANGED <<stack, arg, msg, res, quiet, netVars, doRet, log, drvVars, chanVars, sinkVars>>
  /\ Outcome(FALSE)

(* the sink has closed its end of the criu connection *)
Src_RsyncSendClosed ==
  /\ At(SrcDo, "do_rsync_send")
  /\ criuConn["sink"] = "closed"
  /\ Abort("E_rsync_send")
  /\ UNCHANGED <<stack, arg, msg, res, quiet, netVars, doRet, log, drvVars, chanVars, sinkVars>>
  /\ UNCHANGED faults

(* driver.SendAfterCheckpoint(s.fsConn) completes while the sink receives *)
Src_SendAfterCheckpoint ==
  /\ At(SrcDo, "do_send_after")
  /\ pc[FsXfer] = "fsx_receive"
  /\ Logged("source", "SendAfterCheckpoint")
  /\ Goto(SrcDo, "do_cleanup")
  /\ UNCHANGED <<stack, arg, msg, res, quiet, netVars, retVars, drvVars, chanVars, sinkVars>>
  /\ UNCHANGED faults

Src_SendAfterCheckpointFail ==
  /\ At(SrcDo, "do_send_after")
  /\ Abort("E_send_after_checkpoint")
  /\ UNCHANGED <<stack, arg, msg, res, quiet, netVars, doRet, log, drvVars, chanVars, sinkVars>>
  /\ Outcome(FALSE)

(* the sink has closed its end of the fs connection *)
Src_SendAfterCheckpointClosed ==
  /\ At(SrcDo, "do_send_after")
  /\ fsConn["sink"] = "closed"
  /\ Abort("E_send_after_checkpoint")
  /\ UNCHANGED <<stack, arg, msg, res, quiet, netVars, doRet, log, drvVars, chanVars, sinkVars>>
  /\ UNCHANGED faults

(* driver.Cleanup(), then the final MigrationControl is read *)
Src_Cleanup ==
  /\ At(SrcDo, "do_cleanup")
  /\ cleanups' = [cleanups EXCEPT ![driver] = @ + 1]
  /\ log' = [log EXCEPT !["source"] = @ \cup {"Cleanup", "RecvFinal"}]
  /\ expect' = [expect EXCEPT ![SrcDo] = "control"]
  /\ Call(SrcDo, "recv", "do_final")
  /\ UNCHANGED <<arg, msg, res, quiet, rd, rcvd, header, retVars, driver, obtained, fsErr, storageStarted, chanVars, sinkVars>>
  /\ UNCHANGED faults

PushRestoreSuccess(v) ==
  /\ Len(restoreSuccess) < 1
  /\ restoreSuccess' = Append(restoreSuccess, v)
  /\ log' = [log EXCEPT !["source"] = @ \cup {"FinalControl", "restoreSuccess<-"}]

(* the final read failed: disconnect and return; otherwise, when live,     *)
(* restoreSuccess <- *msg.Success                                          *)
Src_Final ==
  /\ At(SrcDo, "do_final")
  /\ IF res[SrcDo] # Nil
       THEN /\ doErr' = [doErr EXCEPT !["source"] = res[SrcDo]]
            /\ Call(SrcDo, "disconnect_lock", "do_return")
            /\ UNCHANGED <<restoreSuccess, log>>
       ELSE /\ IF live
                 THEN PushRestoreSuccess(rcvd[SrcDo].success) /\ Goto(SrcDo, "do_wait_dump")
                 ELSE /\ Goto(SrcDo, "do_result")
                      /\ Logged("source", "FinalControl")
                      /\ UNCHANGED restoreSuccess
            /\ UNCHANGED <<stack, doErr>>
  /\ UNCHANGED <<arg, msg, res, quiet, netVars, doRet, drvVars, dumpSuccess, dumpDone, sinkVars>>
  /\ UNCHANGED faults

Src_WaitDumpNoWait ==
  /\ At(SrcDo, "do_wait_dump")
  /\ Goto(SrcDo, "do_result")
  /\ UNCHANGED <<stack, arg, msg, res, quiet, netVars, retVars, log, drvVars, chanVars, sinkVars>>
  /\ UNCHANGED faults

Src_WaitDumpReturnsError ==
  /\ At(SrcDo, "do_wait_dump")
  /\ dumpSuccess # <<>>
  /\ dumpSuccess' = Tail(dumpSuccess)
  /\ IF Head(dumpSuccess) # Nil
       THEN /\ Logged("source", "Errorf(dump failed)")
            /\ doErr' = [doErr EXCEPT !["source"] = Head(dumpSuccess)]
            /\ Goto(SrcDo, "do_return")
       ELSE UNCHANGED <<log, doErr>> /\ Goto(SrcDo, "do_result")
  /\ UNCHANGED <<stack, arg, msg, res, quiet, netVars, doRet, drvVars, restoreSuccess, dumpDone, sinkVars>>
  /\ UNCHANGED faults

(* err := <-dumpSuccess; if err != nil { logger.Errorf(...) } *)
Src_WaitDump ==
  /\ At(SrcDo, "do_wait_dump")
  /\ dumpSuccess # <<>>
  /\ dumpSuccess' = Tail(dumpSuccess)
  /\ IF Head(dumpSuccess) # Nil
       THEN Logged("source", "Errorf(dump failed)")
       ELSE UNCHANGED log
  /\ Goto(SrcDo, "do_result")
  /\ UNCHANGED <<stack, arg, msg, res, quiet, netVars, retVars, drvVars, restoreSuccess, dumpDone, sinkVars>>
  /\ UNCHANGED faults

(* if !*msg.Success { return fmt.Errorf on *msg.Message }: a              *)
(* MigrationControl without the optional message has a nil Message         *)
Src_Result ==
  /\ At(SrcDo, "do_result")
  /\ IF rcvd[SrcDo].success
       THEN /\ doErr' = [doErr EXCEPT !["source"] = Nil]
            /\ Goto(SrcDo, "do_return")
            /\ UNCHANGED panicked
       ELSE IF rcvd[SrcDo].hasMessage
         THEN /\ doErr' = [doErr EXCEPT !["source"] = "E_remote"]
              /\ Goto(SrcDo, "do_return")
              /\ UNCHANGED panicked
         ELSE Panic(SrcDo) /\ UNCHANGED doErr
  /\ UNCHANGED <<stack, arg, msg, res, controlLock, controlConn, fsConn, criuConn, writing, sent>>
  /\ UNCHANGED <<calls, connVars, inputVars, netVars, doRet, log, drvVars, chanVars, sinkVars>>
  /\ UNCHANGED faults

(* Do returns: the deferred StorageStop and RemoveAll(checkpointDir) run *)
Src_Return ==
  /\ At(SrcDo, "do_return")
  /\ log' = [log EXCEPT !["source"] =
       @ \cup (IF Did("source", "TempDir") /\ ~actionScript THEN {"RemoveAll(checkpointDir)"} ELSE {})
         \cup (IF storageStarted THEN {"StorageStop"} ELSE {})]
  /\ doRet' = [doRet EXCEPT !["source"] = doErr["source"]]
  /\ Goto(SrcDo, "returned")
  /\ UNCHANGED <<stack, arg, msg, res, quiet, netVars, doErr, drvVars, chanVars, sinkVars>>
  /\ UNCHANGED faults

(* ------------- the dump worker and the action-script operation --------- *)
(* s.container.Migrate fails before the post-dump hook *)
Dump_Failed ==
  /\ At(Dump, "dump_run")
  /\ Len(dumpSuccess) < 1
  /\ dumpSuccess' = Append(dumpSuccess, "E_dump")
  /\ Logged("source", "RemoveAll(checkpointDir)")
  /\ Goto(Dump, "dump_exit")
  /\ UNCHANGED <<stack, arg, msg, res, quiet, netVars, retVars, drvVars, restoreSuccess, dumpDone, sinkVars>>
  /\ Outcome(FALSE)

(* the post-dump hook runs the action script, which dials the operation's  *)
(* websocket: dumpDone <- true                                             *)
Dump_PostDump ==
  /\ At(Dump, "dump_run")
  /\ dumpDone < 1
  /\ dumpDone' = dumpDone + 1
  /\ Goto(Dump, "dump_script")
  /\ UNCHANGED <<stack, arg, msg, res, quiet, netVars, retVars, log, drvVars, restoreSuccess, dumpSuccess, sinkVars>>
  /\ UNCHANGED faults

ScriptResultAlwaysNil(result) == Nil

(* if !result { return fmt.Errorf("restore failed, failing CRIU") }; return nil *)
ScriptResult(result) == IF result THEN Nil ELSE "E_restore_failed"

(* the operation's run function: result := <-restoreSuccess *)
AsOp_Run ==
  /\ At(AsOp, "asop_wait")
  /\ restoreSuccess # <<>>
  /\ restoreSuccess' = Tail(restoreSuccess)
  /\ res' = [res EXCEPT ![AsOp] = ScriptResult(Head(restoreSuccess))]
  /\ Goto(AsOp, "asop_done")
  /\ UNCHANGED <<stack, arg, msg, quiet, netVars, retVars, log, drvVars, dumpSuccess, dumpDone, sinkVars>>
  /\ UNCHANGED faults

(* the script exits with the operation's result, Migrate returns and the   *)
(* worker reports: dumpSuccess <- err, then RemoveAll(checkpointDir)       *)
Dump_Report ==
  /\ At(Dump, "dump_script")
  /\ pc[AsOp] = "asop_done"
  /\ Len(dumpSuccess) < 1
  /\ \E e \in (IF res[AsOp] = Nil THEN {Nil, "E_dump"} ELSE {"E_dump"}) :
       dumpSuccess' = Append(dumpSuccess, e)
  /\ Logged("source", "RemoveAll(checkpointDir)")
  /\ Goto(Dump, "dump_exit")
  /\ UNCHANGED <<stack, arg, msg, res, quiet, netVars, retVars, drvVars, restoreSuccess, dumpDone, sinkVars>>
  /\ UNCHANGED faults

(* --------------------------- migrationSink.Do -------------------------- *)
(* connectWithSecret succeeded: the sink holds its end of the websocket    *)
(* and the source's Connect has run for that secret (assignment and gate)  *)
Dialed(ch) ==
  /\ Attach(Sides, ch)
  /\ Bind(ch, SinkDo)
  /\ IF Gate(controlConn'["source"], criuConn'["source"], fsConn'["source"])
       THEN allConnected' = allConnected + 1 /\ signals' = signals + 1
       ELSE UNCHANGED <<allConnected, signals>>

SinkFails(err, continueAt) ==
  /\ Logged("sink", "Delete")
  /\ CallSendControl(SinkDo, err, continueAt)

(* c.src.controlConn, err = c.connectWithSecret(c.src.controlSecret) *)
Sink_DialControl ==
  /\ At(SinkDo, "sink_dial_control")
  /\ \E ok \in BOOLEAN :
       Outcome(ok) /\ IF ok
         THEN /\ Dialed("control")
              /\ Goto(SinkDo, "sink_dial_fs")
              /\ UNCHANGED <<retVars, log>>
         ELSE /\ Logged("sink", "Delete")
              /\ doErr' = [doErr EXCEPT !["sink"] = "E_dial"]
              /\ doRet' = [doRet EXCEPT !["sink"] = "E_dial"]
              /\ Goto(SinkDo, "returned")
              /\ UNCHANGED <<controlConn, fsConn, criuConn, allConnected, signals, boundBy, firstBound>>
  /\ UNCHANGED <<stack, arg, msg, res, controlLock, writing, sent, panicked, calls, live, secret, reused>>
  /\ UNCHANGED <<inputVars, netVars, drvVars, chanVars, sinkVars>>

(* c.src.fsConn, err = c.connectWithSecret(c.src.fsSecret) *)
Sink_DialFs ==
  /\ At(SinkDo, "sink_dial_fs")
  /\ \E ok \in BOOLEAN :
       Outcome(ok) /\ IF ok
         THEN /\ Dialed("fs")
              /\ Goto(SinkDo, IF live THEN "sink_dial_criu" ELSE "sink_recv_header")
              /\ UNCHANGED <<stack, arg, doErr, log>>
         ELSE /\ SinkFails("E_dial", "sink_return")
              /\ UNCHANGED <<controlConn, fsConn, criuConn, allConnected, signals, boundBy, firstBound>>
  /\ UNCHANGED <<msg, res, controlLock, writing, sent, panicked, calls, live, secret, reused>>
  /\ UNCHANGED <<inputVars, netVars, doRet, drvVars, chanVars, sinkVars>>

(* if c.src.live: c.src.criuConn, err = c.connectWithSecret(criuSecret) *)
Sink_DialCriu ==
  /\ At(SinkDo, "sink_dial_criu")
  /\ \E ok \in BOOLEAN :
       Outcome(ok) /\ IF ok
         THEN /\ Dialed("criu")
              /\ Goto(SinkDo, "sink_recv_header")
              /\ UNCHANGED <<stack, arg, doErr, log>>
         ELSE /\ SinkFails("E_dial", "sink_return")
              /\ UNCHANGED <<controlConn, fsConn, criuConn, allConnected, signals, boundBy, firstBound>>
  /\ UNCHANGED <<msg, res, controlLock, writing, sent, panicked, calls, live, secret, reused>>
  /\ UNCHANGED <<inputVars, netVars, doRet, drvVars, chanVars, sinkVars>>

(* c.src.recv(&header) *)
Sink_RecvHeader ==
  /\ At(SinkDo, "sink_recv_header")
  /\ expect' = [expect EXCEPT ![SinkDo] = "header"]
  /\ Call(SinkDo, "recv", "sink_header")
  /\ UNCHANGED <<arg, msg, res, quiet, rd, rcvd, header, retVars, log, drvVars, chanVars, sinkVars>>
  /\ UNCHANGED faults

(* resp.Fs: the sink's own type, flipped to RSYNC when the source's differs *)
SinkChoice(offered) == IF offered # fsType["sink"] THEN "RSYNC" ELSE fsType["sink"]

(* the header is read; mySink and the echo are chosen; the echo is sent *)
Sink_Header ==
  /\ At(SinkDo, "sink_header")
  /\ IF res[SinkDo] # Nil
       THEN /\ SinkFails(res[SinkDo], "sink_return")
            /\ UNCHANGED <<msg, header, sinkFmt>>
       ELSE /\ header' = [header EXCEPT !["sink"] = rcvd[SinkDo]]
            /\ sinkFmt' = SinkChoice(rcvd[SinkDo].fs)
            /\ msg' = [msg EXCEPT ![SinkDo] = Hdr(SinkChoice(rcvd[SinkDo].fs), CriuTypeOf(live))]
            /\ Call(SinkDo, "send_lock", "sink_echo_sent")
            /\ UNCHANGED <<arg, doErr, log>>
  /\ UNCHANGED <<res, quiet, rd, expect, rcvd, doRet, drvVars, chanVars, snapshots, srcIdmap, offer, firstFailed, sourceCh>>
  /\ UNCHANGED faults

(* the echo could not be sent: fail; otherwise start the restore goroutine *)
(* and the reader of controlChannel(), and enter the select loop           *)
Sink_EchoSent ==
  /\ At(SinkDo, "sink_echo_sent")
  /\ IF res[SinkDo] # Nil
       THEN SinkFails(res[SinkDo], "sink_return")
       ELSE /\ pc' = [pc EXCEPT ![SinkDo] = "sink_select", ![Restore] = "restore_start", ![Reader] = "reader_start"]
            /\ UNCHANGED <<stack, arg, doErr, log>>
  /\ UNCHANGED <<msg, res, quiet, netVars, doRet, drvVars, chanVars, sinkVars>>
  /\ UNCHANGED faults

(* case err = <-restore: the restore goroutine returns (its deferred       *)
(* RemoveAll(imagesDir) runs) and c.src.sendControl(err) comes first       *)
Sink_SelectRestore ==
  /\ At(SinkDo, "sink_select")
  /\ pc[Restore] = "restore_offer"
  /\ pc' = [pc EXCEPT ![Restore] = "restore_exit", ![SinkDo] = "sendControl_lock"]
  /\ stack' = [stack EXCEPT ![SinkDo] = <<"sink_reported">> \o @]
  /\ arg' = [arg EXCEPT ![SinkDo] = offer[Restore]]
  /\ doErr' = [doErr EXCEPT !["sink"] = offer[Restore]]
  /\ IF Did("sink", "TempDir") THEN Logged("sink", "RemoveAll(imagesDir)") ELSE UNCHANGED log
  /\ UNCHANGED <<msg, res, quiet, netVars, doRet, drvVars, chanVars, sinkVars>>
  /\ UNCHANGED faults

(* if err != nil { Delete(); return err }; return nil *)
Sink_Reported ==
  /\ At(SinkDo, "sink_reported")
  /\ IF doErr["sink"] # Nil THEN Logged("sink", "Delete") ELSE UNCHANGED log
  /\ Goto(SinkDo, "sink_return")
  /\ UNCHANGED <<stack, arg, msg, res, quiet, netVars, retVars, drvVars, chanVars, sinkVars>>
  /\ UNCHANGED faults

(* case msg, ok := <-source with !ok: disconnect, Delete, return an error *)
Sink_SelectClosed ==
  /\ At(SinkDo, "sink_select")
  /\ sourceCh = "closed"
  /\ doErr' = [doErr EXCEPT !["sink"] = "E_reading_source"]
  /\ Call(SinkDo, "disconnect_lock", "sink_abort_delete")
  /\ UNCHANGED <<arg, msg, res, quiet, netVars, doRet, log, drvVars, chanVars, sinkVars>>
  /\ UNCHANGED faults

(* case msg, ok := <-source with a message: a failure report disconnects;  *)
(* a success report only runs TemplateApply("copy") and the loop goes on   *)
Sink_SelectSource ==
  /\ At(SinkDo, "sink_select")
  /\ pc[Reader] = "reader_offer"
  /\ IF ~rcvd[Reader].success
       THEN /\ pc' = [pc EXCEPT ![Reader] = "reader_exit", ![SinkDo] = "disconnect_lock"]
            /\ stack' = [stack EXCEPT ![SinkDo] = <<"sink_abort_delete">> \o @]
            /\ doErr' = [doErr EXCEPT !["sink"] = "E_remote"]
            /\ UNCHANGED <<log, faults>>
       ELSE \E ok \in BOOLEAN :
              Outcome(ok) /\ IF ok
                THEN /\ pc' = [pc EXCEPT ![Reader] = "reader_exit"]
                     /\ Logged("sink", "TemplateApply")
                     /\ UNCHANGED <<stack, doErr>>
                ELSE /\ pc' = [pc EXCEPT ![Reader] = "reader_exit", ![SinkDo] = "sink_return"]
                     /\ Logged("sink", "Delete")
                     /\ doErr' = [doErr EXCEPT !["sink"] = "E_template"]
                     /\ UNCHANGED stack
  /\ UNCHANGED <<arg, msg, res, quiet, netVars, doRet, drvVars, chanVars, sinkVars>>

(* c.src.container.Delete(), then return fmt.Errorf on *msg.Message or the *)
(* error of the closed channel                                             *)
Sink_AbortDelete ==
  /\ At(SinkDo, "sink_abort_delete")
  /\ Logged("sink", "Delete")
  /\ IF doErr["sink"] = "E_remote" /\ ~rcvd[Reader].hasMessage
       THEN Panic(SinkDo)
       ELSE Goto(SinkDo, "sink_return") /\ UNCHANGED panicked
  /\ UNCHANGED <<stack, arg, msg, res, controlLock, controlConn, fsConn, criuConn, writing, sent>>
  /\ UNCHANGED <<calls, connVars, inputVars, netVars, retVars, drvVars, chanVars, sinkVars>>
  /\ UNCHANGED faults

(* Do returns: the deferred c.src.disconnect() runs *)
Sink_Return ==
  /\ At(SinkDo, "sink_return")
  /\ Call(SinkDo, "disconnect_lock", "sink_finish")
  /\ UNCHANGED <<arg, msg, res, quiet, netVars, retVars, log, drvVars, chanVars, sinkVars>>
  /\ UNCHANGED faults

Sink_Finish ==
  /\ At(SinkDo, "sink_finish")
  /\ doRet' = [doRet EXCEPT !["sink"] = doErr["sink"]]
  /\ Goto(SinkDo, "returned")
  /\ UNCHANGED <<stack, arg, msg, res, quiet, netVars, doErr, log, drvVars, chanVars, sinkVars>>
  /\ UNCHANGED faults

(* ------------------------ the restore goroutine ------------------------ *)
(* a branch of the transfer ends with err: the first error is remembered *)
Failed(err) == firstFailed' = IF firstFailed = Nil THEN err ELSE firstFailed

Offer(t, err, at) ==
  /\ offer' = [offer EXCEPT ![t] = err]
  /\ Failed(err)
  /\ Goto(t, at)

(* the restore goroutine starts: srcIdmap is rebuilt from header.Idmap, the *)
(* fsTransfer goroutine is started and, when live, ioutil.TempDir is called *)
Restore_Start ==
  /\ At(Restore, "restore_start")
  /\ IF live
       THEN \E ok \in BOOLEAN :
              Outcome(ok) /\ IF ok
                THEN /\ pc' = [pc EXCEPT ![Restore] = "restore_rsync", ![FsXfer] = "fsx_receive"]
                     /\ Logged("sink", "TempDir")
                     /\ UNCHANGED <<offer, firstFailed>>
                ELSE /\ pc' = [pc EXCEPT ![Restore] = "restore_offer", ![FsXfer] = "fsx_receive"]
                     /\ offer' = [offer EXCEPT ![Restore] = "E_tempdir"]
                     /\ Failed("E_tempdir")
                     /\ UNCHANGED log
       ELSE /\ pc' = [pc EXCEPT ![Restore] = "restore_wait_fs", ![FsXfer] = "fsx_receive"]
            /\ UNCHANGED <<log, offer, firstFailed, faults>>
  /\ srcIdmap' = RebuildIdmap(header["sink"].idmap)
  /\ UNCHANGED <<stack, arg, msg, res, quiet, netVars, retVars, drvVars, chanVars, sinkFmt, snapshots, sourceCh>>

(* RsyncRecv(imagesDir, c.src.criuConn) completes once the source has sent *)
Restore_RsyncRecv ==
  /\ At(Restore, "restore_rsync")
  /\ Did("source", "RsyncSend")
  /\ Logged("sink", "RsyncRecv")
  /\ Goto(Restore, "restore_wait_fs")
  /\ UNCHANGED <<stack, arg, msg, res, quiet, netVars, retVars, drvVars, chanVars, sinkVars>>
  /\ UNCHANGED faults

Restore_RsyncRecvFail ==
  /\ At(Restore, "restore_rsync")
  /\ Offer(Restore, "E_rsync_recv", "restore_offer")
  /\ UNCHANGED <<stack, arg, msg, res, quiet, netVars, retVars, log, drvVars, chanVars, sinkFmt, srcIdmap, snapshots, sourceCh>>
  /\ Outcome(FALSE)

(* the sink's disconnect() has closed criuConn: RsyncRecv on it fails *)
Restore_RsyncRecvClosed ==
  /\ At(Restore, "restore_rsync")
  /\ criuConn["sink"] = "closed"
  /\ Offer(Restore, "E_rsync_recv", "restore_offer")
  /\ UNCHANGED <<stack, arg, msg, res, quiet, netVars, retVars, log, drvVars, chanVars, sinkFmt, srcIdmap, snapshots, sourceCh>>
  /\ UNCHANGED faults

(* if err != nil { restore <- err; return } *)
FsTransferIgnored(err) == FALSE

FsTransferFailed(err) == err # Nil

(* err := <-fsTransfer *)
Restore_FsTransfer ==
  /\ At(Restore, "restore_wait_fs")
  /\ pc[FsXfer] = "fsx_offer"
  /\ UNCHANGED firstFailed
  /\ IF FsTransferFailed(offer[FsXfer])
       THEN /\ pc' = [pc EXCEPT ![FsXfer] = "fsx_exit", ![Restore] = "restore_offer"]
            /\ offer' = [offer EXCEPT ![Restore] = offer[FsXfer]]
       ELSE IF live
         THEN /\ pc' = [pc EXCEPT ![FsXfer] = "fsx_exit", ![Restore] = "restore_migrate"]
              /\ UNCHANGED offer
         ELSE /\ pc' = [pc EXCEPT ![FsXfer] = "fsx_exit", ![Restore] = "restore_offer"]
              /\ offer' = [offer EXCEPT ![Restore] = Nil]
  /\ UNCHANGED <<stack, arg, msg, res, quiet, netVars, retVars, log, drvVars, chanVars, sinkFmt, srcIdmap, snapshots, sourceCh>>
  /\ UNCHANGED faults

(* c.src.container.Migrate with MIGRATE_RESTORE *)
Restore_Migrate ==
  /\ At(Restore, "restore_migrate")
  /\ Logged("sink", "Migrate(restore)")
  /\ \E ok \in BOOLEAN : Outcome(ok) /\ Offer(Restore, IF ok THEN Nil ELSE "E_restore", "restore_offer")
  /\ UNCHANGED <<stack, arg, msg, res, quiet, netVars, retVars, drvVars, chanVars, sinkFmt, srcIdmap, snapshots, sourceCh>>

(* ----------------------- the fsTransfer goroutine ---------------------- *)
SourceHasSentFs == Did("source", "SendWhileRunning") /\ (live => Did("source", "SendAfterCheckpoint"))

(* the name of the container the sink receives into (c.src.container) *)
SinkContainer == <<"c">>

(* for _, name := range header.SnapshotNames { base := snapshotToProtobuf( *)
(* c.src.container); base.Name = &name; append }: every descriptor's Name  *)
(* is the address of the loop variable.  The Go language gives the loop    *)
(* one variable (every Name then reads the last name) or, from Go 1.22 on  *)
(* in a module that asks for it, one variable per iteration.               *)
LegacySnapshots(names, perIteration) ==
  [i \in 1..Len(names) |->
     [snapshotToProtobuf(SinkContainer) EXCEPT
        !.name = IF perIteration THEN names[i] ELSE names[Len(names)]]]

(* if len(header.SnapshotNames) != len(header.Snapshots) { the legacy      *)
(* loop } else { snapshots = header.Snapshots }                            *)
SinkSnapshots(h, perIteration) ==
  IF Len(h.snapshotNames) # Len(h.snapshots)
    THEN LegacySnapshots(h.snapshotNames, perIteration)
    ELSE h.snapshots

(* the list of descriptors is built and mySink is called with it *)
CallMySink ==
  \E perIteration \in BOOLEAN : snapshots' = SinkSnapshots(header["sink"], perIteration)

(* mySink(live, container, snapshots, fsConn, srcIdmap) *)
Fsx_Receive ==
  /\ At(FsXfer, "fsx_receive")
  /\ SourceHasSentFs
  /\ CallMySink
  /\ Logged("sink", "mySink")
  /\ Goto(FsXfer, "fsx_shift")
  /\ UNCHANGED <<stack, arg, msg, res, quiet, netVars, retVars, drvVars, chanVars, sinkFmt, srcIdmap, offer, firstFailed, sourceCh>>
  /\ UNCHANGED faults

Fsx_ReceiveFail ==
  /\ At(FsXfer, "fsx_receive")
  /\ CallMySink
  /\ Offer(FsXfer, "E_fs_receive", "fsx_offer")
  /\ UNCHANGED <<stack, arg, msg, res, quiet, netVars, retVars, log, drvVars, chanVars, sinkFmt, srcIdmap, sourceCh>>
  /\ Outcome(FALSE)

(* the sink's disconnect() has closed fsConn: mySink reading it fails *)
Fsx_ReceiveClosed ==
  /\ At(FsXfer, "fsx_receive")
  /\ fsConn["sink"] = "closed"
  /\ CallMySink
  /\ Offer(FsXfer, "E_fs_receive", "fsx_offer")
  /\ UNCHANGED <<stack, arg, msg, res, quiet, netVars, retVars, log, drvVars, chanVars, sinkFmt, srcIdmap, sourceCh>>
  /\ UNCHANGED faults

(* ShiftIfNecessary(container, srcIdmap), then fsTransfer <- err *)
Fsx_Shift ==
  /\ At(FsXfer, "fsx_shift")
  /\ \E ok \in BOOLEAN :
       /\ Outcome(ok)
       /\ Offer(FsXfer, IF ok THEN Nil ELSE "E_shift", "fsx_offer")
       /\ IF ok THEN Logged("sink", "ShiftIfNecessary") ELSE UNCHANGED log
  /\ UNCHANGED <<stack, arg, msg, res, quiet, netVars, retVars, drvVars, chanVars, sinkFmt, srcIdmap, snapshots, sourceCh>>

(* ------------------- the goroutine of controlChannel ------------------- *)
(* c.recv(&msg): ProtoRecv on a nil controlConn panics *)
Reader_Start ==
  /\ At(Reader, "reader_start")
  /\ IF controlConn["sink"] = "nil"
       THEN Panic(Reader) /\ UNCHANGED <<stack, expect>>
       ELSE /\ expect' = [expect EXCEPT ![Reader] = "control"]
            /\ Call(Reader, "recv", "reader_got")
            /\ UNCHANGED panicked
  /\ UNCHANGED <<arg, msg, res, controlLock, controlConn, fsConn, criuConn, writing, sent>>
  /\ UNCHANGED <<calls, connVars, inputVars, rd, rcvd, header, retVars, log, drvVars, chanVars, sinkVars>>
  /\ UNCHANGED faults

(* on an error close(ch); otherwise ch <- msg *)
Reader_Got ==
  /\ At(Reader, "reader_got")
  /\ IF res[Reader] # Nil
       THEN sourceCh' = "closed" /\ Goto(Reader, "reader_exit")
       ELSE UNCHANGED sourceCh /\ Goto(Reader, "reader_offer")
  /\ UNCHANGED <<stack, arg, msg, res, quiet, netVars, retVars, log, drvVars, chanVars, sinkFmt, srcIdmap, snapshots, offer, firstFailed>>
  /\ UNCHANGED faults

(* ------------------------------- Spec ---------------------------------- *)
ProtoThreads == {SrcDo, Dump, AsOp, SinkDo, Restore, FsXfer, Reader}

SourceStep ==
  \/ Do_Wait
  \/ Src_StorageStart
  \/ Src_IdmapSet
  \/ Src_MigrationSource
  \/ Src_HeaderSent
  \/ Src_Echo
  \/ Src_SendWhileRunning
  \/ Src_SendWhileRunningClosed
  \/ Src_Abort
  \/ Src_Criu
  \/ Src_Script
  \/ Src_SelectDumpSuccess
  \/ Src_SelectDumpDone
  \/ Src_LegacyDump
  \/ Src_RsyncSend
  \/ Src_RsyncSendClosed
  \/ Src_SendAfterCheckpoint
  \/ Src_SendAfterCheckpointClosed
  \/ Src_Cleanup
  \/ Src_Final
  \/ Src_WaitDump
  \/ Src_Result
  \/ Src_Return

WorkerStep ==
  \/ Dump_Failed
  \/ Dump_PostDump
  \/ AsOp_Run
  \/ Dump_Report

SinkStep ==
  \/ Sink_DialControl
  \/ Sink_DialFs
  \/ Sink_DialCriu
  \/ Sink_RecvHeader
  \/ Sink_Header
  \/ Sink_EchoSent
  \/ Sink_SelectRestore
  \/ Sink_Reported
  \/ Sink_SelectClosed
  \/ Sink_SelectSource
  \/ Sink_AbortDelete
  \/ Sink_Return
  \/ Sink_Finish

GoroutineStep ==
  \/ Restore_Start
  \/ Restore_RsyncRecv
  \/ Restore_RsyncRecvClosed
  \/ Restore_FsTransfer
  \/ Restore_Migrate
  \/ Fsx_Receive
  \/ Fsx_ReceiveClosed
  \/ Fsx_Shift
  \/ Reader_Start
  \/ Reader_Got

(* a transfer or a read fails: the network or the local tool broke *)
Fault ==
  \/ \E t \in ProtoThreads : Recv_Fault(t)
  \/ Src_SendWhileRunningFail
  \/ Src_RsyncSendFail
  \/ Src_SendAfterCheckpointFail
  \/ Restore_RsyncRecvFail
  \/ Fsx_ReceiveFail

Program ==
  \/ \E t \in ProtoThreads : FieldsStep(t)
  \/ \E t \in ProtoThreads : Recv_Frame(t)
  \/ SourceStep
  \/ WorkerStep
  \/ SinkStep
  \/ GoroutineStep

Init ==
  /\ pc = [t \in Threads |-> IF t = SrcDo THEN "do_wait"
                             ELSE IF t = SinkDo THEN "sink_dial_control" ELSE "off"]
  /\ stack = [t \in Threads |-> <<>>]
  /\ arg = [t \in Threads |-> Nil]
  /\ msg = [t \in Threads |-> Hdr("RSYNC", Absent)]
  /\ res = [t \in Threads |-> Nil]
  /\ InitFieldsOf({})
  /\ calls = 0
  /\ \E isLive \in BOOLEAN : InitConn(isLive, 0)
  /\ \E srcType \in FSTypes, sinkType \in FSTypes, script \in BOOLEAN, m \in BOOLEAN :
       /\ (~live => script)
       /\ InitProto(srcType, sinkType, script, m, OneSnapshot, MaxFaults)

Next == Program \/ Fault

Spec == Init /\ [][Next]_vars

(* the Go scheduler runs every runnable goroutine; a transfer that the     *)
(* peer serves completes; faults are not bound to happen                   *)
FairSpec ==
  /\ Spec
  /\ \A t \in ProtoThreads : WF_vars(FieldsStep(t) \/ Recv_Frame(t))
  /\ WF_vars(SourceStep)
  /\ WF_vars(WorkerStep)
  /\ WF_vars(SinkStep)
  /\ WF_vars(GoroutineStep)

(* ------ SpecHeader: the opening header, for every snapshot listing ----- *)
InitHeader ==
  /\ pc = [t \in Threads |-> IF t = SrcDo THEN "do_driver" ELSE "off"]
  /\ stack = [t \in Threads |-> <<>>]
  /\ arg = [t \in Threads |-> Nil]
  /\ msg = [t \in Threads |-> Hdr("RSYNC", Absent)]
  /\ res = [t \in Threads |-> Nil]
  /\ InitFieldsOf({"source"})
  /\ calls = 0
  /\ \E isLive \in BOOLEAN : InitConn(isLive, 0)
  /\ \E snaps \in Listings : InitProto("RSYNC", "RSYNC", TRUE, TRUE, snaps, MaxFaults)

NextHeader ==
  \/ Src_MigrationSource
  \/ Send_Lock(SrcDo)
  \/ Send_Write(SrcDo)
  \/ Send_Done(SrcDo)

SpecHeader == InitHeader /\ [][NextHeader]_vars

(* ------ SpecLive: one live migration in which two operations may fail -- *)
InitLive ==
  /\ pc = [t \in Threads |-> IF t = SrcDo THEN "do_wait"
                             ELSE IF t = SinkDo THEN "sink_dial_control" ELSE "off"]
  /\ stack = [t \in Threads |-> <<>>]
  /\ arg = [t \in Threads |-> Nil]
  /\ msg = [t \in Threads |-> Hdr("RSYNC", Absent)]
  /\ res = [t \in Threads |-> Nil]
  /\ InitFieldsOf({})
  /\ calls = 0
  /\ InitConn(TRUE, 0)
  /\ \E script \in BOOLEAN, m \in BOOLEAN :
       InitProto("RSYNC", "RSYNC", script, m, OneSnapshot, MaxLiveFaults)

SpecLive == InitLive /\ [][Next]_vars

FairSpecLive ==
  /\ SpecLive
  /\ \A t \in ProtoThreads : WF_vars(FieldsStep(t) \/ Recv_Frame(t))
  /\ WF_vars(SourceStep)
  /\ WF_vars(WorkerStep)
  /\ WF_vars(SinkStep)
  /\ WF_vars(GoroutineStep)

(* ------ SpecEcho: a live source against a peer that echoes any header -- *)
(* the peer answers the opening header with a MigrationHeader of its own   *)
(* making: any fs type, and any checkpoint type or none                    *)
Peer_Echo ==
  /\ Len(sent["source"]) > 0
  /\ sent["sink"] = <<>>
  /\ \E fs \in FSTypes, criu \in CRIUTypes \cup {Absent} :
       sent' = [sent EXCEPT !["sink"] = <<Hdr(fs, criu)>>]
  /\ UNCHANGED <<threadVars, controlLock, controlConn, fsConn, criuConn, writing, panicked, envVars>>
  /\ UNCHANGED faults

(* the channels are attached and the peer is receiving on the fs channel *)
InitEcho ==
  /\ pc = [t \in Threads |-> IF t = SrcDo THEN "do_driver"
                             ELSE IF t = FsXfer THEN "fsx_receive" ELSE "off"]
  /\ stack = [t \in Threads |-> <<>>]
  /\ arg = [t \in Threads |-> Nil]
  /\ msg = [t \in Threads |-> Hdr("RSYNC", Absent)]
  /\ res = [t \in Threads |-> Nil]
  /\ InitFieldsOf({"source"})
  /\ calls = 0
  /\ InitConn(TRUE, 0)
  /\ \E srcType \in FSTypes, script \in BOOLEAN, m \in BOOLEAN :
       InitProto(srcType, "RSYNC", script, m, OneSnapshot, MaxFaults)

SourceEchoStep ==
  \/ Src_MigrationSource
  \/ Send_Lock(SrcDo)
  \/ Send_Write(SrcDo)
  \/ Send_Done(SrcDo)
  \/ Src_HeaderSent
  \/ Recv_Frame(SrcDo)
  \/ Src_Echo
  \/ Src_SendWhileRunning
  \/ Src_Criu
  \/ Src_Abort
  \/ SendControl_Lock(SrcDo)
  \/ SendControl_Write(SrcDo)
  \/ SendControl_Written(SrcDo)
  \/ Src_Script
  \/ Src_LegacyDump
  \/ Src_SelectDumpSuccess
  \/ Src_SelectDumpDone
  \/ Dump_PostDump

NextEcho ==
  \/ SourceEchoStep
  \/ Peer_Echo
  \/ Recv_Fault(SrcDo)
  \/ Src_SendWhileRunningFail
  \/ Dump_Failed

SpecEcho == InitEcho /\ [][NextEcho]_vars

(* the source's goroutines are scheduled and the peer does answer *)
FairSpecEcho == SpecEcho /\ WF_vars(SourceEchoStep) /\ WF_vars(Peer_Echo)

(* ------ SpecLegacy: a sink against a peer that sends any snapshot lists - *)
(* the first n elements of a list *)
Prefix(list, n) == SubSeq(list, 1, n)

(* the headers a source of any version may send for a listing: the names   *)
(* and the descriptors of its first snapshots, as many of each as it likes *)
PeerHeaders ==
  {[Hdr("RSYNC", Absent) EXCEPT
      !.snapshotNames = Prefix([i \in 1..Len(l) |-> ExtractSnapshotName(l[i])], j),
      !.snapshots = Prefix([i \in 1..Len(l) |-> snapshotToProtobuf(l[i])], k)] :
     <<l, j, k>> \in {x \in Listings \X (0..MaxSnaps) \X (0..MaxSnaps) :
                       x[2] <= Len(x[1]) /\ x[3] <= Len(x[1])}}

(* the peer writes its opening header *)
Peer_Header ==
  /\ sent["source"] = <<>>
  /\ \E h \in PeerHeaders : sent' = [sent EXCEPT !["source"] = <<h>>]
  /\ UNCHANGED <<threadVars, controlLock, controlConn, fsConn, criuConn, writing, panicked, envVars>>
  /\ UNCHANGED faults

(* the peer has the echo and streams the filesystem on the fs channel *)
Peer_SendFs ==
  /\ Len(sent["sink"]) > 0
  /\ ~Did("source", "SendWhileRunning")
  /\ Logged("source", "SendWhileRunning")
  /\ UNCHANGED <<threadVars, fieldsVars, calls, connVars, inputVars, netVars>>
  /\ UNCHANGED <<retVars, drvVars, chanVars, sinkVars, faults>>

(* the sink has dialled its channels and is about to read the header *)
InitLegacy ==
  /\ pc = [t \in Threads |-> IF t = SinkDo THEN "sink_recv_header" ELSE "off"]
  /\ stack = [t \in Threads |-> <<>>]
  /\ arg = [t \in Threads |-> Nil]
  /\ msg = [t \in Threads |-> Hdr("RSYNC", Absent)]
  /\ res = [t \in Threads |-> Nil]
  /\ InitFieldsOf(Sides)
  /\ calls = 0
  /\ InitConn(FALSE, 0)
  /\ InitProto("RSYNC", "RSYNC", TRUE, TRUE, <<>>, MaxFaults)

NextLegacy ==
  \/ Peer_Header
  \/ Peer_SendFs
  \/ Sink_RecvHeader
  \/ Recv_Frame(SinkDo)
  \/ Sink_Header
  \/ Send_Lock(SinkDo)
  \/ Send_Write(SinkDo)
  \/ Send_Done(SinkDo)
  \/ Sink_EchoSent
  \/ Restore_Start
  \/ Fsx_Receive
  \/ Fsx_ReceiveFail
  \/ Fsx_Shift

SpecLegacy == InitLegacy /\ [][NextLegacy]_vars

(* ------ SpecIdmap: the header carries the IdmapSet of any container ----- *)
(* host ids, namespace ids and range lengths: 100000, 2^31 - 1, 2^31 and   *)
(* 2^32 + 100000; 0 and 2^31; 65536 and 2^32                               *)
Hostids == {I64(0, 0, 1, 34464), I64(0, 0, 32767, 65535), I64(0, 0, 32768, 0), I64(0, 1, 1, 34464)}
Nsids == {I64(0, 0, 0, 0), I64(0, 0, 32768, 0)}
Mapranges == {I64(0, 0, 1, 0), I64(0, 1, 0, 0)}

IdmapEntries ==
  {IdmapEntry(uid, ~uid, h, n, r) : <<uid, h, n, r>> \in BOOLEAN \X Hostids \X Nsids \X Mapranges}

IdmapSets ==
  {NoIdmapSet} \cup {IdmapSet(l) : l \in UNION {[1..k -> IdmapEntries] : k \in 0..MaxIdmapLen}}

(* both sides have their channels; the source is about to collect the      *)
(* IdmapSet, the sink to read the header                                   *)
InitIdmap ==
  /\ pc = [t \in Threads |-> IF t = SrcDo THEN "do_idmap"
                             ELSE IF t = SinkDo THEN "sink_recv_header" ELSE "off"]
  /\ stack = [t \in Threads |-> <<>>]
  /\ arg = [t \in Threads |-> Nil]
  /\ msg = [t \in Threads |-> Hdr("RSYNC", Absent)]
  /\ res = [t \in Threads |-> Nil]
  /\ InitFieldsOf(Sides)
  /\ calls = 0
  /\ InitConn(FALSE, 0)
  /\ InitMigration("RSYNC", "RSYNC", TRUE, TRUE, <<>>, MaxFaults)
  /\ InitBuilt
  /\ idmapset \in IdmapSets
  /\ InitNoDescriptor

NextIdmap ==
  \/ Src_IdmapSet
  \/ Src_MigrationSource
  \/ \E t \in {SrcDo, SinkDo} : Send_Lock(t) \/ Send_Write(t) \/ Send_Done(t)
  \/ Sink_RecvHeader
  \/ Recv_Frame(SinkDo)
  \/ Sink_Header
  \/ Sink_EchoSent
  \/ Restore_Start

SpecIdmap == InitIdmap /\ [][NextIdmap]_vars

(* ------ SpecSnapshot: the descriptor of any container ------------------ *)
(* a Go map is a function from its keys; a repeated Config is held as the  *)
(* set of its elements (a range over a map visits each key once, in an     *)
(* order that is not specified)                                            *)
DevicePool == <<"eth0", "root", "tty", "gpu">>
DeviceNames == {DevicePool[i] : i \in 1..MaxDevices}
ConfigKeys == {"type", "path"}
ConfigValues == {"disk", "/"}

Maps(keys, values) == UNION {[ks -> values] : ks \in SUBSET keys}

Containers ==
  [name : {<<"c">>, <<"c", "/", "c">>},
   config : Maps(ConfigKeys, ConfigValues),
   devices : Maps(DeviceNames, Maps(ConfigKeys, ConfigValues))]

(* for k, v := range m { kCopy := string(k); vCopy := string(v);           *)
(* append(&migration.Config{Key: &kCopy, Value: &vCopy}) }                 *)
ConfigToProtobuf(m) == {[key |-> k, value |-> m[k]] : k \in DOMAIN m}

(* the orders in which a range over the map may visit its keys *)
RangeOrders(m) ==
  {o \in [1..Cardinality(DOMAIN m) -> DOMAIN m] : \A k \in DOMAIN m : \E i \in DOMAIN o : o[i] = k}

(* for name, d := range c.LocalDevices() { ...; append(&migration.Device{  *)
(* Name: &name, Config: props}) }: every Name is the address of the loop   *)
(* variable, which the language makes one for the loop (every Name then    *)
(* reads the name visited last) or one per iteration                       *)
DevicesToProtobuf(devices, order, perIteration) ==
  [i \in 1..Len(order) |->
     [name |-> IF perIteration THEN order[i] ELSE order[Len(order)],
      config |-> ConfigToProtobuf(devices[order[i]])]]

(* snapshotToProtobuf(c) with the lists of its Config and Device messages *)
SnapshotOf(c, order, perIteration) ==
  [built |-> TRUE,
   name |-> SplitN2(c.name)[Len(SplitN2(c.name))],
   localConfig |-> ConfigToProtobuf(c.config),
   localDevices |-> DevicesToProtobuf(c.devices, order, perIteration)]

Snapshot_ToProtobuf ==
  /\ ~descriptor.built
  /\ \E order \in RangeOrders(ctn.devices), perIteration \in BOOLEAN :
       descriptor' = SnapshotOf(ctn, order, perIteration)
  /\ UNCHANGED <<ctn, threadVars, fieldsVars, calls, connVars, fsType, actionScript,
                 withMessage, fullSnaps, idmapset, faultBudget, ctorVars, netVars,
                 retVars, log, drvVars, chanVars, sinkVars, faults>>

InitSnapshot ==
  /\ InitThreads({}, "off")
  /\ InitFieldsOf({})
  /\ calls = 0
  /\ InitConn(FALSE, 0)
  /\ InitMigration("RSYNC", "RSYNC", TRUE, TRUE, <<>>, MaxFaults)
  /\ InitBuilt
  /\ idmapset = DaemonIdmapSet
  /\ ctn \in Containers
  /\ descriptor = [built |-> FALSE]

NextSnapshot == Snapshot_ToProtobuf

SpecSnapshot == InitSnapshot /\ [][NextSnapshot]_vars

(* ------ SpecCreate: the two operations of a migration are built -------- *)
beyondCtor ==
  <<threadVars, fieldsVars, calls, connVars, fsType, actionScript, withMessage,
    fullSnaps, idmapset, faultBudget, descVars, netVars, retVars, log, drvVars, chanVars, sinkVars,
    faults>>

NotCalled(op) == ~op.built /\ op.err = Nil

(* the source daemon creates the migration operation of a container *)
Create_Source ==
  /\ NotCalled(ret)
  /\ \E r1 \in RandomResults, r2 \in RandomResults, r3 \in RandomResults :
       ret' = NewMigrationSource(running, criuInstalled["source"], r1, r2, r3)
  /\ UNCHANGED <<running, criuInstalled, secrets, sink, beyondCtor>>

(* the operation's metadata is rendered for the client *)
Create_Metadata ==
  /\ ret.built
  /\ secrets = NoSecrets
  /\ secrets' = Metadata(ret)
  /\ UNCHANGED <<running, criuInstalled, ret, sink, beyondCtor>>

(* the client hands the secrets to the sink daemon, which builds its sink *)
Create_Sink ==
  /\ secrets # NoSecrets
  /\ NotCalled(sink)
  /\ sink' = NewMigrationSink(secrets, criuInstalled["sink"])
  /\ UNCHANGED <<running, criuInstalled, ret, secrets, beyondCtor>>

InitCreate ==
  /\ InitThreads({}, "off")
  /\ InitFieldsOf({})
  /\ calls = 0
  /\ InitConn(FALSE, 0)
  /\ InitMigration("RSYNC", "RSYNC", TRUE, TRUE, <<>>, MaxFaults)
  /\ idmapset = DaemonIdmapSet
  /\ InitNoDescriptor
  /\ running \in BOOLEAN
  /\ criuInstalled \in [Sides -> BOOLEAN]
  /\ ret = NoOperation
  /\ secrets = NoSecrets
  /\ sink = NoOperation

NextCreate == Create_Source \/ Create_Metadata \/ Create_Sink

SpecCreate == InitCreate /\ [][NextCreate]_vars

(* ------------------------ claims: the protocol ------------------------- *)
(* C2: whenever the sink's Do has failed (it holds the error it is going   *)
(* to return), the sink eventually calls Delete() on the target container  *)
(* (a sink daemon that died of a panic is not counted against the claim).  *)
C2_SinkDeletesOnFailure ==
  (doErr["sink"] # Nil) ~> (Did("sink", "Delete") \/ panicked["sink"])

(* C3: a live source Do that received the dump-done signal has pushed a    *)
(* value into restoreSuccess by the time it returns.                       *)
C3_RestoreSuccessPushed ==
  (pc[SrcDo] = "returned" /\ Did("source", "dumpDone")) => Did("source", "restoreSuccess<-")

(* C6: when the source's Do has returned, Cleanup() has been called        *)
(* exactly once on every driver handle it obtained.                        *)
C6_CleanupOncePerHandle ==
  pc[SrcDo] = "returned" => \A h \in obtained : cleanups[h] = 1

Agreed == IF fsType["source"] = fsType["sink"] THEN fsType["source"] ELSE "RSYNC"

HeadersSent(s) == Cardinality({i \in 1..Len(sent[s]) : sent[s][i].type = "header"})

(* C8: once the source has read the sink's echo, the format its driver     *)
(* sends is the format the sink's receive function expects: the common     *)
(* type when both sides have the same one, RSYNC otherwise; and each side  *)
(* has sent one header, never a second one.                                *)
C8_Renegotiation ==
  /\ Did("source", "Negotiated") =>
       /\ DriverFormat(driver) = sinkFmt
       /\ sinkFmt = Agreed
       /\ HeadersSent("source") = 1
       /\ HeadersSent("sink") = 1
  /\ \A s \in Sides : HeadersSent(s) <= 1

(* the source offered a type other than rsync, the sink has another one,   *)
(* and the source went on with the rsync driver                            *)
C8_Witness ==
  /\ Did("source", "SendWhileRunning")
  /\ fsType["source"] # "RSYNC"
  /\ fsType["source"] # fsType["sink"]
  /\ driver = 2
  /\ sinkFmt = "RSYNC"

FailureReported ==
  \E i \in 1..Len(sent["source"]) :
    sent["source"][i].type = "control" /\ ~sent["source"][i].success

(* C9: when the source's Do has returned an error without having come to   *)
(* read the final MigrationControl, it has written a MigrationControl with *)
(* success=false on the control channel.                                   *)
C9_FailureReported ==
  (pc[SrcDo] = "returned" /\ doRet["source"] # Nil /\ ~Did("source", "RecvFinal")) => FailureReported

(* C10: after the final MigrationControl is read, Do returns nil exactly   *)
(* when success=true, and the source never dies of a panic, whether the    *)
(* control carries the optional message or not.                            *)
C10_FinalControlDecides ==
  /\ (pc[SrcDo] = "returned" /\ Did("source", "FinalControl")) =>
       (doRet["source"] = Nil <=> rcvd[SrcDo].success)
  /\ pc[SrcDo] # "panic"

(* C11: the outcome the restore goroutine hands to Do, which Do reports    *)
(* and returns, is the error of the transfer branch (filesystem receive    *)
(* and shift, or checkpoint receive and restore) that failed first in      *)
(* time, and nil when no branch failed.                                    *)
C11_FirstErrorReported ==
  pc[Restore] = "restore_exit" => doErr["sink"] = firstFailed

ScriptCase == live /\ actionScript /\ Did("source", "FinalControl")

(* C12: in a live migration with the action script, once the source has    *)
(* read the final MigrationControl the value in restoreSuccess is its      *)
(* success field, the action-script operation does not complete before,    *)
(* it eventually completes, and it completes without error exactly when    *)
(* that value is true.                                                     *)
C12_ScriptFollowsFinalControl ==
  /\ [](pc[AsOp] = "asop_done" => ScriptCase)
  /\ [](ScriptCase =>
          /\ pc[AsOp] \in {"asop_wait", "asop_done"}
          /\ pc[AsOp] = "asop_wait" => restoreSuccess = <<rcvd[SrcDo].success>>
          /\ pc[AsOp] = "asop_done" => (res[AsOp] = Nil <=> rcvd[SrcDo].success))
  /\ ScriptCase ~> (pc[AsOp] = "asop_done")

(* the sink reported a failed restore and the action script exits 1 *)
C12_Witness ==
  /\ ScriptCase
  /\ ~rcvd[SrcDo].success
  /\ pc[AsOp] = "asop_done"
  /\ res[AsOp] = "E_restore_failed"

DumpAborted == actionScript /\ doErr["source"] = "E_dump"

(* C13: in a live migration with the action script, when the dump worker   *)
(* reports before the action-script websocket was dialled, the source      *)
(* sends neither the checkpoint image nor the post-checkpoint delta, and   *)
(* eventually it has sent MigrationControl{success=false} and Do has       *)
(* returned an error.                                                      *)
C13_DumpFailureAborts ==
  /\ [](DumpAborted => ~Did("source", "RsyncSend") /\ ~Did("source", "SendAfterCheckpoint"))
  /\ DumpAborted ~> (pc[SrcDo] = "returned" /\ doRet["source"] # Nil /\ FailureReported)

(* the positions of Do at which, or after which, a step has started *)
SendingFs == pc[SrcDo] \in {"do_send_running", "do_send_after"} \/ Did("source", "SendWhileRunning")

DumpComplete == Did("source", "dumpDone") \/ (~actionScript /\ Did("source", "Migrate(dump)") /\ pc[SrcDo] # "do_legacy_dump")

(* C14: in the source's Do nothing is written on the fs channel before the *)
(* opening header is sent and the sink's echo is read; when live, the      *)
(* checkpoint tool starts only after SendWhileRunning completed, the       *)
(* checkpoint image is streamed only after the dump is complete, and       *)
(* SendAfterCheckpoint starts only after the image was sent; the final     *)
(* MigrationControl is read only after all these sends are done.           *)
C14_SourceOrder ==
  /\ SendingFs => (HeadersSent("source") = 1 /\ Did("source", "Negotiated"))
  /\ Did("source", "Migrate(dump)") => Did("source", "SendWhileRunning")
  /\ (pc[SrcDo] = "do_rsync_send" \/ Did("source", "RsyncSend")) => DumpComplete
  /\ (pc[SrcDo] = "do_send_after" \/ Did("source", "SendAfterCheckpoint")) => Did("source", "RsyncSend")
  /\ Did("source", "RecvFinal") =>
       /\ Did("source", "SendWhileRunning")
       /\ live => (Did("source", "RsyncSend") /\ Did("source", "SendAfterCheckpoint"))

(* a live source has sent everything and reads the final control *)
C14_Witness ==
  /\ live
  /\ Did("source", "RecvFinal")
  /\ Did("source", "SendAfterCheckpoint")
  /\ pc[SrcDo] = "recv"

TransferErrors == {"E_fs_receive", "E_shift", "E_rsync_recv", "E_tempdir"}

(* C15: on the sink the ID-map shift runs only after the filesystem        *)
(* receive succeeded, and the restore tool is invoked only in a live       *)
(* migration after the filesystem receive, the shift and the reception of  *)
(* the checkpoint stream have all succeeded; once one of them has failed   *)
(* the restore tool is not invoked.                                        *)
C15_RestoreAfterTransfers ==
  /\ Did("sink", "ShiftIfNecessary") => Did("sink", "mySink")
  /\ Did("sink", "Migrate(restore)") =>
       /\ live
       /\ Did("sink", "mySink")
       /\ Did("sink", "ShiftIfNecessary")
       /\ Did("sink", "RsyncRecv")
  /\ firstFailed \in TransferErrors => ~Did("sink", "Migrate(restore)")

(* the restore tool has run after both transfers *)
C15_Witness ==
  /\ Did("sink", "Migrate(restore)")
  /\ Did("sink", "RsyncRecv")
  /\ Did("sink", "ShiftIfNecessary")
  /\ pc[Restore] = "restore_offer"

SourceAborted == doErr["sink"] \in {"E_remote", "E_reading_source"}

ControlsSent(s) == Cardinality({i \in 1..Len(sent[s]) : sent[s][i].type = "control"})

(* C16: when the sink's select loop reads a MigrationControl with          *)
(* success=false from the source, or finds the source's control channel    *)
(* broken, the sink does not crash, and when its Do has returned it has    *)
(* returned that error, the target container is deleted, the session is    *)
(* disconnected and the sink has sent no MigrationControl.                 *)
C16_SinkAbortsOnSourceFailure ==
  SourceAborted =>
    /\ pc[SinkDo] # "panic"
    /\ pc[SinkDo] = "returned" =>
         /\ doRet["sink"] = doErr["sink"]
         /\ Did("sink", "Delete")
         /\ controlConn["sink"] = "nil"
         /\ fsConn["sink"] = "closed"
         /\ ControlsSent("sink") = 0

FsAndCriuLabels == {"do_send_running", "do_rsync_send", "do_send_after"}

FsAndCriuSteps == {"SendWhileRunning", "RsyncSend", "SendAfterCheckpoint"}

WritingLabels ==
  {"send_lock", "send_write", "send_writing", "do_header_sent",
   "sendControl_lock", "sendControl_write", "sendControl_writing"}

(* the header of a source without a driver: its fs type, the criu type,   *)
(* the id map, no snapshots                                                *)
DriverlessHeader == [Hdr(fsType["source"], CriuTypeOf(live)) EXCEPT !.idmap = Idmaps(idmapset)]

(* C17: when Storage().MigrationSource fails the source never reads the    *)
(* echo and writes nothing on the fs and criu channels; the only header    *)
(* it sends names its own fs type and has empty snapshot lists; and, when  *)
(* no write fails, what it has sent once sendControl has written is that   *)
(* one header followed immediately by one MigrationControl{success=false}. *)
C17_DriverFailure ==
  fsErr # Nil =>
    /\ rd["source"] = 0 /\ pc[SrcDo] # "recv"
    /\ pc[SrcDo] \notin FsAndCriuLabels /\ log["source"] \cap FsAndCriuSteps = {}
    /\ HeadersSent("source") <= 1 /\ ControlsSent("source") <= 1
    /\ \A i \in 1..Len(sent["source"]) :
         sent["source"][i].type = "header" =>
           sent["source"][i] = DriverlessHeader
    /\ (faults = 1 /\ pc[SrcDo] \notin WritingLabels) =>
         /\ Len(sent["source"]) = 2
         /\ sent["source"][1] = DriverlessHeader
         /\ sent["source"][2] = Ctl(FALSE, withMessage)

(* no driver, although the container has a snapshot: the header with empty *)
(* lists and the control failure are on the wire                           *)
C17_Witness ==
  /\ fsErr # Nil
  /\ fullSnaps # <<>>
  /\ Len(sent["source"]) = 2
  /\ sent["source"][2].type = "control"

(* the part of a snapshot's full name after the parent container's name *)
WithoutParent(full, short) ==
  \E k \in 1..Len(full) :
    /\ full[k] = SnapshotDelimiter
    /\ \A j \in 1..(k - 1) : full[j] # SnapshotDelimiter
    /\ short = SubSeq(full, k + 1, Len(full))

ParallelLists(h) ==
  /\ Len(h.snapshotNames) = Len(h.snapshots)
  /\ Len(h.snapshots) = (IF fsErr = Nil THEN Len(fullSnaps) ELSE 0)
  /\ \A i \in 1..Len(h.snapshots) :
       /\ h.snapshotNames[i] = h.snapshots[i].name
       /\ WithoutParent(fullSnaps[i], h.snapshots[i].name)

(* C18: in the opening header the source builds and in the header it has   *)
(* sent, snapshotNames and snapshots have the same length, the number of   *)
(* snapshots the driver lists, and at every index the same name, which is  *)
(* the snapshot's full name without the parent container's prefix.         *)
C18_ParallelLists ==
  /\ pc[SrcDo] # "do_driver" => ParallelLists(msg[SrcDo])
  /\ \A i \in 1..Len(sent["source"]) :
       sent["source"][i].type = "header" => ParallelLists(sent["source"][i])

(* a header with two snapshots is on the wire, one of them with a          *)
(* delimiter left in its name                                              *)
C18_Witness ==
  /\ Len(sent["source"]) = 1
  /\ Len(sent["source"][1].snapshots) = 2
  /\ \E i \in 1..2 : IsSnapshot(sent["source"][1].snapshotNames[i])

(* C19: in a non-live migration whose StorageStart succeeded, once the     *)
(* source's Do has failed (it holds the error it is going to return),      *)
(* StorageStop is eventually called.                                       *)
C19_StorageStopped ==
  (storageStarted /\ doErr["source"] # Nil) ~> Did("source", "StorageStop")

(* the channels the operation expects: control and fs, and criu when live *)
Expected == {"control", "fs"} \cup (IF live THEN {"criu"} ELSE {})

AllAttached == \A ch \in Expected : firstBound[ch] # None

(* C21: as long as one of the expected channels (control, fs, and criu     *)
(* when live) has not been attached, the source's Do is still waiting: it  *)
(* has written nothing on the control channel, has no write in flight, has *)
(* not started the storage, holds no driver and has completed no step.     *)
C21_NothingBeforeAttached ==
  ~AllAttached =>
    /\ pc[SrcDo] = "do_wait"
    /\ sent["source"] = <<>>
    /\ writing["source"] = {}
    /\ ~storageStarted
    /\ driver = 0
    /\ log["source"] = {}

(* a live migration: control and fs are attached, criu is not yet, and Do  *)
(* is waiting                                                              *)
C21_Witness ==
  /\ live
  /\ firstBound["control"] # None
  /\ firstBound["fs"] # None
  /\ firstBound["criu"] = None
  /\ pc[SrcDo] = "do_wait"

(* the channels an operation waits for or dials *)
ChannelsOf(op) == {"control", "fs"} \cup (IF op.live THEN {"criu"} ELSE {})

(* C23: a source operation that was built is live exactly when its         *)
(* container was running; its secrets dictionary holds control and fs,     *)
(* and criu exactly when the operation is live; a sink built from that     *)
(* dictionary is live exactly when the source is, so that both expect      *)
(* three channels when live and two otherwise.                             *)
C23_SecretsFollowLive ==
  /\ ret.built => (ret.live <=> running)
  /\ secrets # NoSecrets =>
       /\ {"control", "fs"} \subseteq DOMAIN secrets
       /\ "criu" \in DOMAIN secrets <=> ret.live
  /\ sink.built =>
       /\ sink.live <=> ret.live
       /\ ChannelsOf(sink) = ChannelsOf(ret)
       /\ ChannelsOf(sink) = DOMAIN secrets
       /\ Cardinality(ChannelsOf(sink)) = (IF running THEN 3 ELSE 2)

(* a running container: both operations are built and both are live *)
C23_Witness ==
  /\ running
  /\ ret.built /\ ret.live
  /\ sink.built /\ sink.live
  /\ DOMAIN secrets = {"control", "fs", "criu"}

(* the source has read an echo whose checkpoint type is missing or is not  *)
(* CRIU_RSYNC                                                              *)
BadEcho == Did("source", "Negotiated") /\ header["source"].criu # "CRIU_RSYNC"

DumpLabels == {"do_script", "do_legacy_dump", "do_select", "do_rsync_send"}

DumpStarted ==
  \/ pc[SrcDo] \in DumpLabels
  \/ pc[Dump] # "off"
  \/ Did("source", "TempDir")
  \/ Did("source", "Migrate(dump)")

(* C24: in a live migration the source comes to the checkpoint (temporary  *)
(* directory, action script, dump) only when the echo header carries the   *)
(* checkpoint type CRIU_RSYNC; when the echo lacks the type or carries     *)
(* another one the container is never dumped, and once SendWhileRunning is *)
(* done the source aborts: it has eventually written a MigrationControl    *)
(* with success=false on the control channel, unless that write fails.     *)
C24_CriuTypeChecked ==
  /\ [](DumpStarted => (Did("source", "Negotiated") /\ header["source"].criu = "CRIU_RSYNC"))
  /\ [](BadEcho => ~DumpStarted)
  /\ (BadEcho /\ Did("source", "SendWhileRunning")) ~>
       (/\ doErr["source"] \in {"E_no_criu_type", "E_criu_format"}
        /\ Did("source", "Cleanup")
        /\ FailureReported \/ faults > 0)

(* the echo carried PHAUL, the source has reported the failure and the     *)
(* container was not dumped                                                *)
C24_Witness ==
  /\ BadEcho
  /\ header["source"].criu = "PHAUL"
  /\ doErr["source"] = "E_criu_format"
  /\ FailureReported
  /\ ~DumpStarted

LateDumpError ==
  /\ live /\ actionScript
  /\ Did("source", "FinalControl")
  /\ rcvd[SrcDo].success
  /\ Did("source", "Errorf(dump failed)")

(* C25: in a live migration with the action script, when the final         *)
(* MigrationControl had success=true and the dump worker then reported an  *)
(* error, the error is logged and nothing else: Do goes on to its result,  *)
(* the error it is about to return is nil, and it returns nil.             *)
C25_LateDumpErrorLogged ==
  LateDumpError =>
    /\ pc[SrcDo] \in {"do_result", "do_return", "returned"}
    /\ doErr["source"] = Nil
    /\ pc[SrcDo] = "returned" => doRet["source"] = Nil

(* the restore succeeded, the dump worker reported an error and Do has     *)
(* returned                                                                *)
C25_Witness ==
  /\ LateDumpError
  /\ pc[Dump] = "dump_exit"
  /\ pc[SrcDo] = "returned"
  /\ doRet["source"] = Nil

MySinkCalled == pc[FsXfer] \in {"fsx_shift", "fsx_offer", "fsx_exit"}

(* the descriptor of the target container under another name *)
ParentAs(name) == [snapshotToProtobuf(SinkContainer) EXCEPT !.name = name]

(* C26: once the sink has called its receive function, the descriptors it  *)
(* handed over are, when snapshotNames and snapshots of the received       *)
(* header differ in length, one per entry of snapshotNames, in order, each *)
(* the target container's descriptor with its name replaced by that entry; *)
(* and the received snapshots as they are when the lengths are equal.      *)
C26_LegacyFill ==
  MySinkCalled =>
    IF Len(header["sink"].snapshotNames) # Len(header["sink"].snapshots)
      THEN /\ Len(snapshots) = Len(header["sink"].snapshotNames)
           /\ \A i \in 1..Len(snapshots) : snapshots[i] = ParentAs(header["sink"].snapshotNames[i])
      ELSE snapshots = header["sink"].snapshots

(* the same, for the builds in which the loop variable is one per          *)
(* iteration and for headers that name at most one snapshot                *)
LegacyFillOneName ==
  (MySinkCalled /\ Len(header["sink"].snapshotNames) <= 1) => C26_LegacyFill

DumpWorkerStarted == live /\ actionScript /\ Did("source", "Migrate(dump)")

AfterWaitDump == {"do_result", "do_return", "returned", "panic"}

(* C27: the dump worker the source has started is never taken away: it is  *)
(* running, waiting for its action script or has reported; and when the    *)
(* final MigrationControl was received, Do comes past its read of          *)
(* dumpSuccess, and so to its return, only after the worker has run to its *)
(* end and reported its result.                                            *)
C27_DumpRunsToCompletion ==
  /\ DumpWorkerStarted => pc[Dump] \in {"dump_run", "dump_script", "dump_exit"}
  /\ ~DumpWorkerStarted => pc[Dump] = "off"
  /\ (ScriptCase /\ pc[SrcDo] \in AfterWaitDump) =>
       /\ pc[Dump] = "dump_exit"
       /\ pc[AsOp] = "asop_done"
       /\ dumpSuccess = <<>>

(* the sink reported a failed restore: the worker has reported and Do has  *)
(* returned the error                                                      *)
C27_Witness ==
  /\ ScriptCase
  /\ ~rcvd[SrcDo].success
  /\ pc[Dump] = "dump_exit"
  /\ pc[SrcDo] = "returned"
  /\ doRet["source"] = "E_remote"

(* a live migration without the action script in which the synchronous    *)
(* dump and both sends succeeded and the final MigrationControl was read   *)
LegacyCase ==
  /\ live /\ ~actionScript
  /\ Did("source", "Migrate(dump)")
  /\ Did("source", "RsyncSend")
  /\ Did("source", "SendAfterCheckpoint")
  /\ Did("source", "FinalControl")

(* C29: in a live migration without the action script, where the           *)
(* synchronous dump, the checkpoint image send and the post-checkpoint     *)
(* delta send all succeeded, the source's Do eventually returns once it    *)
(* has read the final MigrationControl (a daemon that died of a panic is   *)
(* not counted against the claim), and it returns nil exactly when that    *)
(* message carries success=true.                                           *)
C29_LegacyDoTerminates ==
  /\ []((LegacyCase /\ pc[SrcDo] = "returned") => (doRet["source"] = Nil <=> rcvd[SrcDo].success))
  /\ LegacyCase ~> (pc[SrcDo] = "returned" \/ panicked["source"])

(* Do waits for a report on dumpSuccess that no goroutine will send *)
LegacyStuck ==
  /\ LegacyCase
  /\ pc[SrcDo] = "do_wait_dump"
  /\ dumpSuccess = <<>>
  /\ pc[Dump] = "off"

(* the sink's select took `case err = <-restore`: no report of the source  *)
(* came before the outcome of the transfer                                 *)
ViaRestore == pc[Restore] = "restore_exit"

AllSucceeded == firstFailed = Nil

SentSuccess(s, ok) ==
  \E i \in 1..Len(sent[s]) : sent[s][i].type = "control" /\ sent[s][i].success = ok

(* C30: when the sink's Do takes the outcome of the transfer (the source   *)
(* reported no failure), the sink writes at most one MigrationControl and  *)
(* eventually one (unless that write failed), whose success field is true  *)
(* exactly when no branch of the transfer failed; Do eventually returns (a *)
(* daemon that died of a panic is not counted), it returns nil exactly     *)
(* when it has not deleted the container, which is when the control it     *)
(* sent carries success=true; and once success=false was sent the          *)
(* container is eventually deleted.                                        *)
C30_SinkFinalControl ==
  /\ [](ViaRestore =>
          /\ ControlsSent("sink") <= 1
          /\ SentSuccess("sink", TRUE) => AllSucceeded
          /\ SentSuccess("sink", FALSE) => ~AllSucceeded
          /\ pc[SinkDo] = "returned" =>
               /\ doRet["sink"] = Nil <=> ~Did("sink", "Delete")
               /\ SentSuccess("sink", TRUE) => doRet["sink"] = Nil
               /\ SentSuccess("sink", FALSE) => doRet["sink"] # Nil)
  /\ ViaRestore ~> (ControlsSent("sink") = 1 \/ (AllSucceeded /\ faults > 0))
  /\ ViaRestore ~> (pc[SinkDo] = "returned" \/ panicked["sink"])
  /\ (ViaRestore /\ SentSuccess("sink", FALSE)) ~> (Did("sink", "Delete") \/ panicked["sink"])

(* what is sent when the sink's Do takes the outcome of the transfer, and  *)
(* the return after success=true: the part that does not depend on         *)
(* sendControl(err) returning                                              *)
SinkFinalControlSafe ==
  /\ [](ViaRestore =>
          /\ ControlsSent("sink") <= 1
          /\ SentSuccess("sink", TRUE) => AllSucceeded
          /\ SentSuccess("sink", FALSE) => ~AllSucceeded
          /\ pc[SinkDo] = "returned" =>
               /\ doRet["sink"] = Nil <=> ~Did("sink", "Delete")
               /\ SentSuccess("sink", TRUE) => doRet["sink"] = Nil
               /\ SentSuccess("sink", FALSE) => doRet["sink"] # Nil)
  /\ ViaRestore ~> (ControlsSent("sink") = 1 \/ (AllSucceeded /\ faults > 0))
  /\ (ViaRestore /\ AllSucceeded) ~>
       ((pc[SinkDo] = "returned" /\ doRet["sink"] = Nil /\ ~Did("sink", "Delete")) \/ panicked["sink"])

(* the entries of the source container's IdmapSet, none when it has no set *)
SourceEntries == idmapset.Idmap

Rebuilt == pc[Restore] \notin {"off", "restore_start"}

(* C31: once the sink's restore goroutine has rebuilt srcIdmap from the    *)
(* header, it has the entries of the source container's IdmapSet, in the   *)
(* same order, each with the same Isuid, Isgid, Hostid, Nsid and Maprange  *)
(* (64-bit values).                                                        *)
C31_IdmapRoundTrip == Rebuilt => srcIdmap = SourceEntries

(* the round trip of the IdmapSet of the daemon the tests start *)
IdmapIn32Bits ==
  (Rebuilt /\ \A i \in 1..Len(SourceEntries) :
               \A f \in {"Hostid", "Nsid", "Maprange"} :
                 SourceEntries[i][f] = Int64(Int32(SourceEntries[i][f])))
    => srcIdmap = SourceEntries

(* the positions and the steps that belong to the checkpoint part *)
LiveOnlyLabels ==
  [t \in {SrcDo, SinkDo, Restore} |->
     CASE t = SrcDo -> {"do_criu", "do_script", "do_select", "do_legacy_dump",
                        "do_rsync_send", "do_send_after", "do_wait_dump"}
       [] t = SinkDo -> {"sink_dial_criu"}
       [] OTHER -> {"restore_rsync", "restore_migrate"}]

LiveOnlySteps ==
  [s \in Sides |->
     IF s = "source"
       THEN {"TempDir", "Migrate(dump)", "dumpDone", "RsyncSend", "SendAfterCheckpoint",
             "restoreSuccess<-", "RemoveAll(checkpointDir)"}
       ELSE {"TempDir", "RsyncRecv", "Migrate(restore)", "RemoveAll(imagesDir)"}]

(* C32: in a non-live migration the source never starts the checkpoint     *)
(* tool, never creates the action-script operation, never writes on the    *)
(* criu channel and never calls SendAfterCheckpoint; the sink never dials  *)
(* or reads the criu channel and never runs the restore tool; neither side *)
(* holds a criu websocket, and no header sent carries a checkpoint type.   *)
C32_NonLiveNoCheckpoint ==
  ~live =>
    /\ \A t \in DOMAIN LiveOnlyLabels : pc[t] \notin LiveOnlyLabels[t]
    /\ pc[Dump] = "off" /\ pc[AsOp] = "off"
    /\ \A s \in Sides : log[s] \cap LiveOnlySteps[s] = {}
    /\ \A s \in Sides : criuConn[s] = "nil"
    /\ boundBy["criu"] = None
    /\ restoreSuccess = <<>> /\ dumpSuccess = <<>> /\ dumpDone = 0
    /\ \A s \in Sides : \A i \in 1..Len(sent[s]) :
         sent[s][i].type = "header" => sent[s][i].criu = Absent

(* a non-live migration ran to its end on both sides *)
C32_Witness ==
  /\ ~live
  /\ pc[SrcDo] = "returned" /\ doRet["source"] = Nil
  /\ pc[SinkDo] = "returned" /\ doRet["sink"] = Nil
  /\ HeadersSent("source") = 1 /\ HeadersSent("sink") = 1

SinkWorkers == {Restore, FsXfer, Reader}

(* a goroutine that was never started, or that ran to its end *)
Terminated(t) == pc[t] \in {"off", "restore_exit", "fsx_exit", "reader_exit"}

(* C33: once the sink's Do has returned, every worker goroutine it started *)
(* (the restore goroutine, the fsTransfer goroutine, the reader of the     *)
(* control channel) eventually terminates, and when a restore image        *)
(* directory was created it is eventually removed (a sink daemon that died *)
(* of a panic is not counted against the claim).                           *)
C33_SinkWorkersTerminate ==
  (pc[SinkDo] = "returned") ~>
    (\/ panicked["sink"]
     \/ /\ \A t \in SinkWorkers : Terminated(t)
        /\ Did("sink", "TempDir") => Did("sink", "RemoveAll(imagesDir)"))

(* Do has returned and the restore goroutine is sending on the restore     *)
(* channel, which nobody will read                                         *)
RestoreBlocked ==
  /\ pc[SinkDo] = "returned"
  /\ pc[Restore] = "restore_offer"
  /\ ~panicked["sink"]

(* a worker of the sink is inside mySink, ShiftIfNecessary or the restore  *)
(* of the container                                                        *)
WorkerOnContainer ==
  \/ pc[FsXfer] \in {"fsx_receive", "fsx_shift"}
  \/ pc[Restore] = "restore_migrate"

(* C34: the step in which the sink calls Delete() on the target container  *)
(* is taken only when none of its workers is inside the filesystem         *)
(* receive, the ID-map shift or the restore of that container.             *)
C34_DeleteAfterWorkers ==
  [][("Delete" \notin log["sink"] /\ "Delete" \in log'["sink"]) => ~WorkerOnContainer]_vars

(* Delete() was called while the fsTransfer goroutine is inside mySink *)
DeletedUnderWorker ==
  /\ Did("sink", "Delete")
  /\ pc[FsXfer] = "fsx_receive"
  /\ ~Did("sink", "mySink")

(* ------------------------- claims: Connect ----------------------------- *)
(* C4: a Connect presenting a secret that has already attached a channel   *)
(* fails with Permission, and the connection of the first Connect stays    *)
(* the one bound to that channel.                                          *)
C4_SecretSingleUse ==
  /\ \A h \in Handlers : (pc[h] = "connect_done" /\ reused[h]) => res[h] = "ErrPermission"
  /\ \A ch \in Channels : boundBy[ch] = firstBound[ch]

(* C5: the gating condition fires exactly once: allConnected is signalled  *)
(* at most once, and no Connect stays blocked on signalling it after Do    *)
(* has taken its value.                                                    *)
C5_GateFiresOnce ==
  /\ signals <= 1
  /\ \A h \in Handlers :
       ~(pc[h] = "connect_signal" /\ allConnected = 1 /\ pc[SrcDo] # "do_wait")

Unmatched(sec) == sec # "" /\ sec \notin {controlSecret, fsSecret, criuSecret}

(* C20: a Connect that presents a secret matching none of the operation's  *)
(* secrets ends at once with ErrPermission, in a step that leaves the      *)
(* three channels, their bindings, the allConnected signal and the         *)
(* position of Do as they were; such a request never holds a channel.      *)
C20_BadSecretRejected ==
  /\ [](\A h \in Handlers :
          (pc[h] # "connect_request" /\ Unmatched(secret[h])) =>
            /\ pc[h] = "connect_done"
            /\ res[h] = "ErrPermission"
            /\ \A ch \in Channels : boundBy[ch] # h /\ firstBound[ch] # h)
  /\ [][\A h \in Handlers :
          (pc[h] = "connect_request" /\ pc'[h] # "connect_request" /\ Unmatched(secret'[h])) =>
            /\ UNCHANGED <<controlConn, fsConn, criuConn, boundBy, firstBound>>
            /\ UNCHANGED <<allConnected, signals>>
            /\ pc'[SrcDo] = pc[SrcDo]]_vars

(* a request with a bad secret was rejected while the control channel was  *)
(* attached and Do was still waiting for the other channels                *)
C20_Witness ==
  /\ \E h \in Handlers : pc[h] = "connect_done" /\ Unmatched(secret[h]) /\ res[h] = "ErrPermission"
  /\ Attached("control")
  /\ ~Attached("fs")
  /\ pc[SrcDo] = "do_wait"
  /\ signals = 0

CloseFrames(s) == Cardinality({i \in 1..Len(sent[s]) : sent[s][i].type = "close"})

Releases(s) ==
  \/ fsConn'[s] = "closed" /\ fsConn[s] # "closed"
  \/ criuConn'[s] = "closed" /\ criuConn[s] # "closed"

(* C22: whatever disconnect, sendControl and send calls are made on a      *)
(* side, it writes at most one close frame on its control channel and that *)
(* frame is the last thing written there; and a step that closes the fs or *)
(* the criu channel is a raw close of both: it writes no frame and has no  *)
(* write in flight.                                                        *)
C22_OneCloseFrame ==
  /\ [](\A s \in Sides :
          /\ CloseFrames(s) <= 1
          /\ \A i \in 1..Len(sent[s]) : sent[s][i].type = "close" => i = Len(sent[s]))
  /\ [][\A s \in Sides :
          Releases(s) =>
            /\ fsConn'[s] = RawClose(fsConn[s])
            /\ criuConn'[s] = RawClose(criuConn[s])
            /\ sent' = sent
            /\ writing' = writing /\ writing[s] = {}]_vars

(* a second disconnect, after one that wrote the close frame and closed fs *)
(* and criu, has found controlConn nil and written nothing                 *)
C22_Witness ==
  /\ CloseFrames("sink") = 1
  /\ fsConn["sink"] = "closed"
  /\ \E t \in Writers : pc[t] = "disconnect_unlock"

UpgradeFailed(h) == pc[h] = "connect_done" /\ res[h] = "E_upgrade"

(* C28: a Connect whose secret matched and whose websocket upgrade failed  *)
(* returns the upgrade's error in a step that leaves the three channels,   *)
(* their bindings, the allConnected signal and the position of Do as they  *)
(* were; such a request never holds a channel.                             *)
C28_UpgradeFailureLeavesOperation ==
  /\ [](\A h \in Handlers :
          UpgradeFailed(h) =>
            /\ ConnOf(secret[h]) # "none"
            /\ \A ch \in Channels : boundBy[ch] # h /\ firstBound[ch] # h)
  /\ [][\A h \in Handlers :
          (pc[h] = "connect_upgrade" /\ pc'[h] = "connect_done") =>
            /\ res'[h] = "E_upgrade"
            /\ UNCHANGED <<controlConn, fsConn, criuConn, boundBy, firstBound>>
            /\ UNCHANGED <<allConnected, signals>>
            /\ pc'[SrcDo] = pc[SrcDo]]_vars

(* the upgrade of a request with the fs secret failed while control was    *)
(* attached: fs is still not attached and Do is still waiting              *)
C28_Witness ==
  /\ \E h \in Handlers : UpgradeFailed(h) /\ secret[h] = fsSecret
  /\ Attached("control")
  /\ ~Attached("fs")
  /\ pc[SrcDo] = "do_wait"
  /\ signals = 0

(* ------------------------- claims: the writers ------------------------- *)
SendControlLabels == {"sendControl_lock", "sendControl_write", "sendControl_writing", "sendControl_unlock"}

InSendControl(t) ==
  \/ pc[t] \in SendControlLabels
  \/ \E i \in 1..Len(stack[t]) : stack[t][i] = "sendControl_unlock"

(* C1: every call of sendControl(err) with a non-nil err eventually        *)
(* returns to its caller (a daemon that died of a panic is not counted     *)
(* against the claim).                                                     *)
C1_SendControlReturns ==
  \A t \in Threads :
    (pc[t] = "sendControl_lock" /\ arg[t] # Nil) ~> (~InSendControl(t) \/ panicked[SideOf(t)])

(* C7: at most one write is in flight on a side's control channel.         *)
C7_OneWriter == \A s \in Sides : Cardinality(writing[s]) <= 1

LockLabels == {"send_lock", "sendControl_lock", "disconnect_lock"}

(* one goroutine is writing while another one waits for controlLock *)
C7_Witness ==
  \E t \in Threads, u \in Threads :
    /\ t # u
    /\ SideOf(t) = SideOf(u)
    /\ t \in writing[SideOf(t)]
    /\ pc[u] \in LockLabels

(* C35: the descriptor snapshotToProtobuf builds holds exactly one Device  *)
(* for each local device of the container, under that device's own name    *)
(* and with that device's own configuration entries, and exactly one       *)
(* Config for each key of the container's local configuration.             *)
DevicesNamed(name) ==
  {i \in DOMAIN descriptor.localDevices : descriptor.localDevices[i].name = name}

C35_DescriptorListsDevices ==
  descriptor.built =>
    /\ Len(descriptor.localDevices) = Cardinality(DOMAIN ctn.devices)
    /\ \A name \in DOMAIN ctn.devices :
         /\ Cardinality(DevicesNamed(name)) = 1
         /\ \A i \in DevicesNamed(name) :
              descriptor.localDevices[i].config = ConfigToProtobuf(ctn.devices[name])
    /\ Cardinality(descriptor.localConfig) = Cardinality(DOMAIN ctn.config)
    /\ \A k \in DOMAIN ctn.config :
         {entry.value : entry \in {e \in descriptor.localConfig : e.key = k}} = {ctn.config[k]}

(* what holds whichever way the loop variable is made: one Device for each *)
(* local device, the configurations being those of the local devices, and  *)
(* the Config entries of the container                                     *)
DescriptorListsConfigs ==
  descriptor.built =>
    /\ Len(descriptor.localDevices) = Cardinality(DOMAIN ctn.devices)
    /\ \E order \in RangeOrders(ctn.devices) :
         \A i \in DOMAIN order :
           descriptor.localDevices[i].config = ConfigToProtobuf(ctn.devices[order[i]])
    /\ descriptor.localConfig = ConfigToProtobuf(ctn.config)

(* a container of at most one device is described as the claim says *)
OneDeviceDescribed ==
  (descriptor.built /\ Cardinality(DOMAIN ctn.devices) <= 1) =>
    \A name \in DOMAIN ctn.devices : Cardinality(DevicesNamed(name)) = 1

(* C36: in a live migration that uses the action script, the checkpoint    *)
(* state directory is not removed between the end of the dump and the end  *)
(* of the streaming of the checkpoint image to the sink, and once it was   *)
(* created it is eventually removed, however Do has returned.              *)
WithActionScript == live /\ actionScript /\ Did("source", "TempDir")
CheckpointDirRemoved == Did("source", "RemoveAll(checkpointDir)")

KeptUntilStreamed ==
  (WithActionScript /\ Did("source", "dumpDone") /\ CheckpointDirRemoved)
    => Did("source", "RsyncSend")

C36_CheckpointDirRemoved ==
  /\ []KeptUntilStreamed
  /\ ((WithActionScript /\ pc[SrcDo] = "returned") ~> CheckpointDirRemoved)

(* after the dump has finished the directory is removed only once the sink *)
(* has reported and Do has passed the report to the script's operation     *)
RemovedOnlyAfterReport ==
  (WithActionScript /\ Did("source", "dumpDone") /\ CheckpointDirRemoved)
    => Did("source", "restoreSuccess<-")

(* Do has returned, the dump worker still waits for the script, which      *)
(* waits for a result nobody will send: the directory stays                *)
CheckpointDirLeft ==
  /\ WithActionScript
  /\ pc[SrcDo] = "returned"
  /\ pc[Dump] = "dump_script"
  /\ pc[AsOp] = "asop_wait"
  /\ restoreSuccess = <<>>
  /\ ~CheckpointDirRemoved

(* C37: on a source operation that is not live (no criu secret was         *)
(* generated) no Connect request, whatever secret it presents, the empty   *)
(* one included, ever attaches the criu channel; and in either mode a      *)
(* request with an empty secret ends at once with the 'missing secret'     *)
(* error, in a step that leaves the channels, their bindings and the       *)
(* allConnected signal as they were.                                       *)
C37_NoCriuWithoutSecret ==
  /\ [](~live => (~Attached("criu") /\ boundBy["criu"] = None /\ firstBound["criu"] = None))
  /\ [](\A h \in Handlers :
          (pc[h] # "connect_request" /\ secret[h] = "") =>
            /\ pc[h] = "connect_done"
            /\ res[h] = "E_missing_secret"
            /\ \A ch \in Channels : boundBy[ch] # h /\ firstBound[ch] # h)
  /\ [][\A h \in Handlers :
          (pc[h] = "connect_request" /\ pc'[h] # "connect_request" /\ secret'[h] = "") =>
            /\ UNCHANGED <<controlConn, fsConn, criuConn, boundBy, firstBound>>
            /\ UNCHANGED <<allConnected, signals>>]_vars

(* on an operation that is not live one request presented the empty        *)
(* secret and was told it is missing, another presented what would be the  *)
(* criu secret of a live operation and was refused                         *)
C37_Witness ==
  /\ ~live
  /\ \E h \in Handlers :
       pc[h] = "connect_done" /\ secret[h] = "" /\ res[h] = "E_missing_secret"
  /\ \E h \in Handlers :
       pc[h] = "connect_done" /\ secret[h] = "secret-criu" /\ res[h] = "ErrPermission"
  /\ ~Attached("criu")

====
